---- MODULE Spec2Model ----
(***************************************************************************)
(* A model of the Vulkan engine of src/src/vk_engine.cpp and               *)
(* src/src/vk_engine.h: the start-up sequence VulkanEngine::init, the main *)
(* loop VulkanEngine::run, the frame VulkanEngine::draw with draw_objects, *)
(* the shutdown VulkanEngine::cleanup and the DeletionQueue.               *)
(*                                                                         *)
(* The CPU is one thread whose position is pc.  The GPU runs beside it:    *)
(* a queue submission stays in gpuQueue from vkQueueSubmit until its       *)
(* commands have completed, a presentation request stays in presentQueue   *)
(* from vkQueuePresentKHR until the presentation engine has taken the      *)
(* image.  Fences and binary semaphores carry, next to their state, the    *)
(* number of the frame whose operation signalled them last.                *)
(***************************************************************************)
EXTENDS Integers, Sequences, FiniteSets, TLC

(***************************************************************************)
(* Bounds of the model.                                                    *)
(***************************************************************************)
\* The frame loop is followed for the frames 0 .. MaxFrames-1.
MaxFrames == 4
MaxLoopFrames == 5
\* The swapchain of the bootstrap collaborator holds this many images.
NumImages == 3
\* minUniformBufferOffsetAlignment is 0 or 2^i with i in 0 .. MaxAlignLog2.
MaxAlignLog2 == 8
\* init_scene's grid runs over -GridHalf .. GridHalf in both directions.
GridHalf == 0
\* The number of vertices the mesh loader returns for the monkey.
MonkeyVertices == 4
\* load_shader_module on its own: shader files of 0 .. MaxFileSize bytes.
MaxFileSize == 9
\* DeletionQueue on its own: at most this many push_function calls,
\* of closures drawn from this many different ones.
MaxPushes == 4
NumActions == 3
\* draw_objects on its own: render-object lists of at most this many objects.
MaxObjects == 3
\* The registries on their own: this many different pipelines, layouts and
\* uploads of the meshes.
NumHandles == 2
\* size_t is followed as an unsigned integer of this many bits: its sums wrap
\* around at 2^SizeBits as they do at 2^64.
SizeBits == 10

(***************************************************************************)
(* Program constants.                                                      *)
(***************************************************************************)
FRAME_OVERLAP == 2
\* sizeof(GPUSceneData): five glm::vec4 of 16 bytes each.
SizeofGPUSceneData == 80
\* sizeof(GPUCameraData): three glm::mat4 of 64 bytes each.
SizeofGPUCameraData == 192
\* sizeof(GPUObjectData): one glm::mat4.
SizeofGPUObjectData == 64
MAX_OBJECTS == 10000
\* uint32_t uniform_offset
UniformOffsetBits == 32
\* sizeof(uint32_t)
SizeofUint32 == 4

Slots == 0 .. (FRAME_OVERLAP - 1)

VK_SUCCESS == "VK_SUCCESS"
VK_TIMEOUT == "VK_TIMEOUT"
VK_ERROR_DEVICE_LOST == "VK_ERROR_DEVICE_LOST"
VK_ERROR_OUT_OF_DATE_KHR == "VK_ERROR_OUT_OF_DATE_KHR"
\* The entry of the step log for a call that returns nothing.
Void == "void"

\* A handle that names no object.
VK_NULL_HANDLE == <<"VK_NULL_HANDLE", 0>>

NoFrame == 0 - 1
NoImage == 0 - 1
NULL == "nullptr"

VARIABLES
    pc,                  \* the CPU's position in init / run / draw / cleanup
    _frameNumber,        \* VulkanEngine::_frameNumber
    _isInitialized,      \* VulkanEngine::_isInitialized
    _selectedShader,     \* VulkanEngine::_selectedShader
    bQuit,               \* run()'s local
    swapchainImageIndex, \* draw()'s local
    minUboAlignment,     \* _gpuProperties.limits.minUniformBufferOffsetAlignment
    fences,              \* _frames[i]._renderFence
    semaphores,          \* _frames[i]._presentSemaphore / _renderSemaphore
    cmdBuffers,          \* _frames[i]._mainCommandBuffer
    descriptors,         \* _frames[i].globalDescriptor / objectDescriptor
    sceneBufferSize,     \* the size _sceneParameterBuffer was created with
    cameraMem,           \* contents of _frames[i].cameraBuffer
    sceneMem,            \* contents of _sceneParameterBuffer
    objectMem,           \* contents of _frames[i].objectBuffer
    lastSceneWrite,      \* the byte range of the latest write to the scene buffer
    _materials,          \* VulkanEngine::_materials
    _meshes,             \* VulkanEngine::_meshes
    _renderables,        \* VulkanEngine::_renderables
    freeImages,          \* the swapchain images that can be acquired, oldest first
    gpuQueue,            \* the submissions of _graphicsQueue that have not completed
    presentQueue,        \* the presentation requests that have not been served
    colorStarted,        \* per frame: who signalled the semaphore its colour output waited for
    completed,           \* the frames whose submission has completed
    presented,           \* per frame: who signalled the semaphore its presentation waited for
    deletors,            \* _mainDeletionQueue.deletors
    uploads,             \* the number of vertex buffers upload_meshes has created
    executed,            \* the destroy calls made so far, in order
    pushed,              \* the closures pushed since the last flush, in order
    expected,            \* the closures of every flush so far, each flush reversed
    created,             \* the handles init() has created so far, in order
    steps,               \* the calls of the current draw(), in order, with their results
    drawCalls,           \* the number of calls of draw() so far
    iterations,          \* the number of times the body of run()'s loop was entered
    callLog              \* the calls made on a function taken on its own, with their results

vars == << pc, _frameNumber, _isInitialized, _selectedShader, bQuit,
           swapchainImageIndex, minUboAlignment, fences, semaphores, cmdBuffers,
           descriptors, sceneBufferSize, cameraMem, sceneMem, objectMem,
           lastSceneWrite, _materials, _meshes, _renderables, freeImages, gpuQueue,
           presentQueue, colorStarted, completed, presented, deletors, uploads,
           executed, pushed, expected, created, steps, drawCalls, iterations,
           callLog >>

cpuVars == << _frameNumber, _isInitialized, _selectedShader, bQuit,
              swapchainImageIndex >>
initVars == << minUboAlignment, descriptors, sceneBufferSize, _materials,
               _meshes, _renderables, uploads, created >>
memVars == << cameraMem, sceneMem, objectMem, lastSceneWrite >>
syncVars == << fences, semaphores >>
gpuVars == << freeImages, gpuQueue, presentQueue, colorStarted, completed, presented >>
dqVars == << deletors, executed, pushed, expected >>
logVars == << steps, drawCalls, iterations >>


(***************************************************************************)
(* Bit arithmetic on naturals.                                             *)
(***************************************************************************)
RECURSIVE Pow2(_)
Pow2(n) == IF n = 0 THEN 1 ELSE 2 * Pow2(n - 1)

\* x & ~m, bit by bit (size_t operands; no operand here reaches the width).
RECURSIVE AndNot(_, _)
AndNot(x, m) ==
    IF x = 0 THEN 0
    ELSE ((x % 2) * (1 - (m % 2))) + 2 * AndNot(x \div 2, m \div 2)

\* The low n bits of x: the conversion of a size_t to an n-bit unsigned.
RECURSIVE LowBits(_, _)
LowBits(x, n) ==
    IF n = 0 \/ x = 0 THEN 0
    ELSE (x % 2) + 2 * LowBits(x \div 2, n - 1)

\* The value a size_t holds after an addition whose exact result is x.
SizeT(x) == x % Pow2(SizeBits)

\* The values a device reports as minUniformBufferOffsetAlignment.
Alignments == {0} \cup { Pow2(i) : i \in 0 .. MaxAlignLog2 }

(***************************************************************************)
(* VulkanEngine::pad_uniform_buffer_size                                   *)
(***************************************************************************)
pad_uniform_buffer_size_roundDown(originalSize) ==
    IF minUboAlignment > 0
    THEN AndNot(originalSize, minUboAlignment - 1)
    ELSE originalSize

pad_uniform_buffer_size_noMinusOne(originalSize) ==
    IF minUboAlignment > 0
    THEN AndNot(SizeT(originalSize + minUboAlignment), minUboAlignment - 1)
    ELSE originalSize

pad_uniform_buffer_size(originalSize) ==
    IF minUboAlignment > 0
    THEN AndNot(SizeT(originalSize + minUboAlignment - 1), minUboAlignment - 1)
    ELSE originalSize

(***************************************************************************)
(* VulkanEngine::get_current_frame: the index of the slot it returns.      *)
(***************************************************************************)
get_current_frame_divided == (_frameNumber \div FRAME_OVERLAP) % FRAME_OVERLAP

get_current_frame == _frameNumber % FRAME_OVERLAP

(***************************************************************************)
(* VK_CHECK: where the CPU goes after a call that returned err.            *)
(***************************************************************************)
VK_CHECK_ignored(err, next) == next

VK_CHECK(err, next) == IF err # VK_SUCCESS THEN "aborted" ELSE next

(***************************************************************************)
(* DeletionQueue.  A closure is the sequence of the destroy calls it       *)
(* makes; a call names the handle it destroys and whether the closure      *)
(* reaches it through a member of the engine or through a reference to a   *)
(* local variable of the function that pushed it.                          *)
(***************************************************************************)
Destroy(call, kind, index) ==
    [call |-> call, handle |-> <<kind, index>>, ref |-> "member"]

DestroyLocal(call, kind, index) ==
    [call |-> call, handle |-> <<kind, index>>, ref |-> "local"]

push_function(d, function) == Append(d, function)

\* flush's loop: from rbegin (the last element) down to rend.
RECURSIVE RunDeletors_forward(_, _)
RunDeletors_forward(d, i) ==
    IF i = 0 THEN <<>> ELSE RunDeletors_forward(d, i - 1) \o <<d[i]>>

RECURSIVE RunDeletors(_, _)
RunDeletors(d, i) ==
    IF i = 0 THEN <<>> ELSE <<d[i]>> \o RunDeletors(d, i - 1)

\* The destroy calls of a sequence of closures, in the order they are made.
RECURSIVE Calls(_)
Calls(closures) ==
    IF closures = <<>> THEN <<>> ELSE Head(closures) \o Calls(Tail(closures))

\* A call through a reference to a local that no longer exists destroys
\* whatever that memory holds: the handle it was given, or something else.
Resolve(calls, junk) ==
    [ i \in 1 .. Len(calls) |->
        IF calls[i].ref = "local" /\ calls[i].call \in junk
        THEN [calls[i] EXCEPT !.handle = <<"garbage", 0>>]
        ELSE calls[i] ]

LocalCalls(closures) ==
    { Calls(closures)[i].call : i \in { j \in 1 .. Len(Calls(closures)) :
                                         Calls(closures)[j].ref = "local" } }

Reverse(s) == [ i \in 1 .. Len(s) |-> s[Len(s) + 1 - i] ]

\* A push made by the engine: the queue and the record of what was pushed.
Push(function) ==
    /\ deletors' = push_function(deletors, function)
    /\ pushed' = Append(pushed, function)
    /\ UNCHANGED << executed, expected >>

RECURSIVE PushAll(_, _)
PushAll(d, functions) ==
    IF functions = <<>> THEN d
    ELSE PushAll(push_function(d, Head(functions)), Tail(functions))

PushSeveral(functions) ==
    /\ deletors' = PushAll(deletors, functions)
    /\ pushed' = pushed \o functions
    /\ UNCHANGED << executed, expected >>

\* The vkCreate... / vmaCreate... calls of a start-up function: the handles
\* they return, in the order of the calls.
Create(handles) == created' = created \o handles


(***************************************************************************)
(* The registries.  A Material* or Mesh* is the key of the entry it points *)
(* to, or NULL.                                                            *)
(***************************************************************************)
\* std::unordered_map::find: the map after the call (find leaves it alone)
\* and the iterator, which is the key it points to or end().
find_subscript(map, name) ==
    [ map |-> [ n \in (DOMAIN map) \cup {name} |->
                  IF n \in DOMAIN map THEN map[n] ELSE "default-constructed" ],
      it |-> name ]

find(map, name) ==
    [ map |-> map, it |-> IF name \in DOMAIN map THEN name ELSE "end()" ]

get_material(name) ==
    LET it == find(_materials, name).it
    IN  IF it = "end()" THEN NULL ELSE it

get_mesh_otherRegistry(name) ==
    LET it == find(_materials, name).it
    IN  IF it = "end()" THEN NULL ELSE it

get_mesh(name) ==
    LET it == find(_meshes, name).it
    IN  IF it = "end()" THEN NULL ELSE it

\* _materials after create_material(pipeline, layout, name)
create_material_insertOnly(pipeline, layout, name) ==
    [ n \in (DOMAIN _materials) \cup {name} |->
        IF n \in DOMAIN _materials THEN _materials[n]
        ELSE [pipeline |-> pipeline, pipelineLayout |-> layout] ]

\* return &_materials[name]
create_material_return(name) == name

create_material(pipeline, layout, name) ==
    [ n \in (DOMAIN _materials) \cup {name} |->
        IF n = name THEN [pipeline |-> pipeline, pipelineLayout |-> layout]
        ELSE _materials[n] ]

(***************************************************************************)
(* VulkanEngine::load_shader_module                                        *)
(***************************************************************************)
\* std::vector<uint32_t> buffer(fileSize / sizeof(uint32_t)): its bytes.
BufferBytes(fileSize) == (fileSize \div SizeofUint32) * SizeofUint32

\* file.read((char*)buffer.data(), fileSize) stores fileSize bytes in the
\* buffer.  With a size that is no multiple of sizeof(uint32_t) the last one
\* to three bytes are stored past the end of the vector's storage: the
\* behaviour is undefined, the heap may be left intact or be corrupted, and
\* with a corrupted heap the process is ended inside a later allocation or
\* release (the vector's own, at the latest).
ReadOutcomes(fileSize) ==
    IF fileSize > BufferBytes(fileSize) THEN {"intact", "corrupted"} ELSE {"intact"}

\* What vkCreateShaderModule can answer: a module, or an error.
CreateShaderModuleResults ==
    { [result |-> VK_SUCCESS, shaderModule |-> <<"shaderModule", k>>] :
        k \in 0 .. NumHandles - 1 }
    \cup { [result |-> "VK_ERROR_OUT_OF_HOST_MEMORY", shaderModule |-> <<"unset", 0>>],
           [result |-> "VK_ERROR_INVALID_SHADER_NV", shaderModule |-> <<"unset", 0>>] }

\* load_shader_module(filepath, outShaderModule) with the file found at
\* filepath, the heap after the read and the driver's answer: how the call
\* ends and, when it returns, what it returns and what *outShaderModule
\* holds afterwards.
load_shader_module(file, heap, driver, outShaderModule) ==
    IF ~file.is_open
    THEN [end |-> "returned", ret |-> FALSE, out |-> outShaderModule]
    ELSE IF heap = "corrupted"
    THEN [end |-> "aborted"]
    ELSE IF driver.result # VK_SUCCESS
    THEN [end |-> "returned", ret |-> FALSE, out |-> outShaderModule]
    ELSE [end |-> "returned", ret |-> TRUE, out |-> driver.shaderModule]

(***************************************************************************)
(* VulkanEngine::init, one action per function it calls.                   *)
(***************************************************************************)
initRest == << _frameNumber, _selectedShader, bQuit, swapchainImageIndex,
               memVars, gpuVars, logVars >>

init_vulkan ==
    /\ pc = "init_vulkan"
    /\ \E a \in Alignments : minUboAlignment' = a
    /\ Create(<< <<"instance", 0>>, <<"debug_messenger", 0>>, <<"surface", 0>>,
                 <<"device", 0>>, <<"allocator", 0>> >>)
    /\ Push(<< Destroy("vmaDestroyAllocator", "allocator", 0) >>)
    /\ pc' = "init_swapchain"
    /\ UNCHANGED << initRest, _isInitialized, syncVars, cmdBuffers, descriptors,
                    sceneBufferSize, _materials, _meshes, _renderables, uploads >>
    /\ UNCHANGED callLog

init_swapchain ==
    /\ pc = "init_swapchain"
    /\ PushSeveral(<< << Destroy("vkDestroySwapchainKHR", "swapchain", 0) >>,
                      << Destroy("vkDestroyImageView", "depthImageView", 0),
                         Destroy("vmaDestroyImage", "depthImage", 0) >> >>)
    /\ Create(<< <<"swapchain", 0>> >>
              \o [ k \in 1 .. NumImages |-> <<"swapchainImageView", k - 1>> ]
              \o << <<"depthImage", 0>>, <<"depthImageView", 0>> >>)
    /\ pc' = "init_default_renderpass"
    /\ UNCHANGED << initRest, minUboAlignment, descriptors,
                    sceneBufferSize, _materials, _meshes, _renderables, uploads,
                    _isInitialized, syncVars, cmdBuffers >>
    /\ UNCHANGED callLog

init_default_renderpass ==
    /\ pc = "init_default_renderpass"
    /\ Push(<< Destroy("vkDestroyRenderPass", "renderPass", 0) >>)
    /\ Create(<< <<"renderPass", 0>> >>)
    /\ pc' = "init_framebuffers"
    /\ UNCHANGED << initRest, minUboAlignment, descriptors,
                    sceneBufferSize, _materials, _meshes, _renderables, uploads,
                    _isInitialized, syncVars, cmdBuffers >>
    /\ UNCHANGED callLog

init_framebuffers ==
    /\ pc = "init_framebuffers"
    /\ PushSeveral([ k \in 1 .. NumImages |->
                       << Destroy("vkDestroyFramebuffer", "framebuffer", k - 1),
                          Destroy("vkDestroyImageView", "swapchainImageView", k - 1) >> ])
    /\ Create([ k \in 1 .. NumImages |-> <<"framebuffer", k - 1>> ])
    /\ pc' = "init_commands"
    /\ UNCHANGED << initRest, minUboAlignment, descriptors,
                    sceneBufferSize, _materials, _meshes, _renderables, uploads,
                    _isInitialized, syncVars, cmdBuffers >>
    /\ UNCHANGED callLog

init_commands ==
    /\ pc = "init_commands"
    /\ cmdBuffers' = [ i \in Slots |-> [state |-> "initial", cmds |-> <<>>] ]
    /\ PushSeveral([ k \in 1 .. FRAME_OVERLAP |->
                       << Destroy("vkDestroyCommandPool", "commandPool", k - 1) >> ])
    /\ Create([ k \in 1 .. FRAME_OVERLAP |-> <<"commandPool", k - 1>> ])
    /\ pc' = "init_sync_structures"
    /\ UNCHANGED << initRest, minUboAlignment, descriptors, sceneBufferSize,
                    _materials, _meshes, _renderables, uploads, _isInitialized,
                    syncVars >>
    /\ UNCHANGED callLog

\* vkinit::fence_create_info(VK_FENCE_CREATE_SIGNALED_BIT)
fence_create_info_unsignaled == [signaled |-> FALSE, by |-> NoFrame]

fence_create_info == [signaled |-> TRUE, by |-> NoFrame]

init_sync_structures ==
    /\ pc = "init_sync_structures"
    /\ fences' = [ i \in Slots |-> fence_create_info ]
    /\ semaphores' = [ s \in Slots \X {"present", "render"} |->
                         [st |-> "unsignaled", by |-> NoFrame] ]
    /\ PushSeveral([ k \in 1 .. 2 * FRAME_OVERLAP |->
                       IF k % 2 = 1
                       THEN << Destroy("vkDestroyFence", "renderFence", (k - 1) \div 2) >>
                       ELSE << Destroy("vkDestroySemaphore", "presentSemaphore", (k - 1) \div 2),
                               Destroy("vkDestroySemaphore", "renderSemaphore", (k - 1) \div 2) >> ])
    /\ Create([ k \in 1 .. 3 * FRAME_OVERLAP |->
                   << CASE k % 3 = 1 -> "renderFence"
                        [] k % 3 = 2 -> "presentSemaphore"
                        [] OTHER     -> "renderSemaphore",
                      (k - 1) \div 3 >> ])
    /\ pc' = "init_descriptors"
    /\ UNCHANGED << initRest, minUboAlignment, descriptors, sceneBufferSize,
                    _materials, _meshes, _renderables, uploads, _isInitialized,
                    cmdBuffers >>
    /\ UNCHANGED callLog

init_descriptors ==
    /\ pc = "init_descriptors"
    /\ sceneBufferSize' = FRAME_OVERLAP * pad_uniform_buffer_size(SizeofGPUSceneData)
    /\ descriptors' =
         [ i \in Slots |->
             [ camera |-> [buffer |-> <<"cameraBuffer", i>>, offset |-> 0,
                           range |-> SizeofGPUCameraData],
               scene  |-> [buffer |-> <<"sceneParameterBuffer", 0>>, offset |-> 0,
                           range |-> SizeofGPUSceneData],
               object |-> [buffer |-> <<"objectBuffer", i>>, offset |-> 0,
                           range |-> SizeofGPUObjectData * MAX_OBJECTS] ] ]
    /\ Push(<< Destroy("vmaDestroyBuffer", "sceneParameterBuffer", 0),
               Destroy("vkDestroyDescriptorSetLayout", "objectSetLayout", 0),
               Destroy("vkDestroyDescriptorSetLayout", "globalSetLayout", 0),
               Destroy("vkDestroyDescriptorPool", "descriptorPool", 0) >>
            \o [ k \in 1 .. 2 * FRAME_OVERLAP |->
                   IF k % 2 = 1
                   THEN Destroy("vmaDestroyBuffer", "cameraBuffer", (k - 1) \div 2)
                   ELSE Destroy("vmaDestroyBuffer", "objectBuffer", (k - 1) \div 2) ])
    /\ Create(<< <<"descriptorPool", 0>>, <<"globalSetLayout", 0>>,
                 <<"objectSetLayout", 0>>, <<"sceneParameterBuffer", 0>> >>
              \o [ k \in 1 .. 2 * FRAME_OVERLAP |->
                     IF k % 2 = 1 THEN <<"cameraBuffer", (k - 1) \div 2>>
                     ELSE <<"objectBuffer", (k - 1) \div 2>> ])
    /\ pc' = "init_pipelines"
    /\ UNCHANGED << initRest, _isInitialized, syncVars, cmdBuffers, minUboAlignment,
                    _materials, _meshes, _renderables, uploads >>
    /\ UNCHANGED callLog

\* init_pipelines with the outcomes of its calls: how the two
\* load_shader_module calls ended (a false is printed and the function goes
\* on), what vkCreatePipelineLayout returned (checked by VK_CHECK) and the
\* handle build_pipeline returned (a pipeline, or VK_NULL_HANDLE).
init_pipelinesOf(frag, vert, layoutResult, meshPipeline) ==
    /\ pc = "init_pipelines"
    /\ IF frag.end = "aborted" \/ vert.end = "aborted"
          \/ VK_CHECK(layoutResult, "load_meshes") = "aborted"
       THEN /\ pc' = "aborted"
            /\ UNCHANGED << _materials, created, dqVars >>
       ELSE /\ _materials' = create_material(meshPipeline, <<"pipelineLayout", 0>>,
                                             "defaultmesh")
            /\ Push(<< DestroyLocal("vkDestroyPipeline", "pipeline", 0),
                       DestroyLocal("vkDestroyPipelineLayout", "pipelineLayout", 0) >>)
            /\ Create(<< <<"pipelineLayout", 0>> >>
                      \o (IF meshPipeline = VK_NULL_HANDLE THEN <<>>
                          ELSE << meshPipeline >>))
            /\ pc' = "load_meshes"
    /\ UNCHANGED << initRest, _isInitialized, syncVars, cmdBuffers, minUboAlignment,
                    descriptors, sceneBufferSize, _meshes, _renderables, uploads >>
    /\ UNCHANGED callLog

\* A load_shader_module call that found its file and created the module.
ShaderLoaded(k) ==
    load_shader_module([is_open |-> TRUE, size |-> 2 * SizeofUint32], "intact",
                       [result |-> VK_SUCCESS, shaderModule |-> <<"shaderModule", k>>],
                       <<"uninitialized", 0>>)

\* The start-up in which the shaders are found and everything is created.
init_pipelines ==
    init_pipelinesOf(ShaderLoaded(0), ShaderLoaded(1), VK_SUCCESS, <<"pipeline", 0>>)

\* load_meshes with the outcomes of its calls: the number of vertices
\* load_from_obj left in _monkeyMesh (none when the file is not found; the
\* result of load_from_obj is not looked at) and what vmaCreateBuffer returned
\* in the two upload_meshes calls (checked by VK_CHECK).  Both meshes are
\* uploaded, then copied into the registry.
load_meshesOf(monkeyVertices, monkeyResult, triangleResult) ==
    /\ pc \in {"load_meshes", "load_meshes_again"}
    /\ IF VK_CHECK(monkeyResult, "upload") = "aborted"
          \/ VK_CHECK(triangleResult, "registry") = "aborted"
       THEN /\ pc' = "aborted"
            /\ UNCHANGED << uploads, _meshes, created, dqVars, _isInitialized >>
       ELSE /\ uploads' = uploads + 2
            /\ _meshes' = [ n \in (DOMAIN _meshes) \cup {"monkey", "triangle"} |->
                              IF n = "monkey"
                              THEN [vertices |-> monkeyVertices,
                                    vertexBuffer |-> <<"vertexBuffer", uploads>>]
                              ELSE IF n = "triangle"
                              THEN [vertices |-> 3,
                                    vertexBuffer |-> <<"vertexBuffer", uploads + 1>>]
                              ELSE _meshes[n] ]
            /\ PushSeveral(<< << Destroy("vmaDestroyBuffer", "vertexBuffer", uploads) >>,
                              << Destroy("vmaDestroyBuffer", "vertexBuffer",
                                         uploads + 1) >> >>)
            /\ Create(<< <<"vertexBuffer", uploads>>, <<"vertexBuffer", uploads + 1>> >>)
            /\ pc' = IF pc = "load_meshes" THEN "init_scene" ELSE "loop_test"
            /\ _isInitialized' = (pc = "load_meshes_again")
    /\ UNCHANGED << initRest, syncVars, cmdBuffers, minUboAlignment, descriptors,
                    sceneBufferSize, _materials, _renderables >>
    /\ UNCHANGED callLog

\* The start-up in which the monkey is found and both uploads succeed.
load_meshes == load_meshesOf(MonkeyVertices, VK_SUCCESS, VK_SUCCESS)

GridWidth == 2 * GridHalf + 1

\* The grid of the source runs over -20 .. 20 in both directions: the number
\* of render objects init_scene pushes there.
GridExtent == 20
SceneObjects == 1 + (2 * GridExtent + 1) * (2 * GridExtent + 1)

init_scene ==
    /\ pc = "init_scene"
    /\ _renderables' =
         _renderables
         \o << [mesh |-> get_mesh("monkey"), material |-> get_material("defaultmesh"),
                transformMatrix |-> [translate |-> <<0, 0, 0>>, scale |-> <<1, 1>>]] >>
         \o [ k \in 1 .. GridWidth * GridWidth |->
                [mesh |-> get_mesh("triangle"), material |-> get_material("defaultmesh"),
                 transformMatrix |->
                     [translate |-> << ((k - 1) \div GridWidth) - GridHalf, 0,
                                       ((k - 1) % GridWidth) - GridHalf >>,
                      scale |-> <<1, 5>>]] ]
    /\ pc' = "load_meshes_again"
    /\ UNCHANGED << initRest, _isInitialized, syncVars, cmdBuffers, minUboAlignment,
                    descriptors, sceneBufferSize, _materials, _meshes, uploads, created,
                    dqVars >>
    /\ UNCHANGED callLog


(***************************************************************************)
(* VulkanEngine::run                                                       *)
(***************************************************************************)
\* What SDL_PollEvent delivers; "none" is its return value 0.
Events == {"SDL_QUIT", "SDLK_SPACE", "other", "none"}

\* while (!bQuit): where run() goes from the test of its loop.
LoopTest_inverted == IF bQuit THEN "poll" ELSE "run_returned"

LoopTest == IF bQuit THEN "run_returned" ELSE "poll"

run_LoopTest ==
    /\ pc = "loop_test"
    /\ pc' = LoopTest
    /\ iterations' = IF LoopTest = "poll" THEN iterations + 1 ELSE iterations
    /\ UNCHANGED << cpuVars, initVars, memVars, syncVars, cmdBuffers, gpuVars,
                    dqVars, steps, drawCalls >>
    /\ UNCHANGED callLog

\* _selectedShader += 1; if (_selectedShader > 1) _selectedShader = 0;
NextShader_offByOne(selected) == IF selected + 1 > 2 THEN 0 ELSE selected + 1

NextShader(selected) == IF selected + 1 > 1 THEN 0 ELSE selected + 1

\* Where run() goes once SDL_PollEvent has answered: with an event (a quit
\* event included) the polling loop takes another turn, with none draw() is
\* called.
AfterPoll_quitLeaves(e) ==
    IF e = "none" THEN "draw_wait" ELSE IF e = "SDL_QUIT" THEN "loop_test" ELSE "poll"

AfterPoll(e) == IF e = "none" THEN "draw_wait" ELSE "poll"

\* One turn of while (SDL_PollEvent(&e) != 0) { ... } in which the event e is
\* polled; with no event left the loop ends and draw() is called.  Frames are
\* started while _frameNumber < frames, and after a quit (the last one).
run_PollEventUpTo(e, frames) ==
    /\ pc = "poll"
    /\ e = "none" => (_frameNumber < frames \/ bQuit)
    /\ pc' = AfterPoll(e)
    /\ bQuit' = IF e = "SDL_QUIT" THEN TRUE ELSE bQuit
    /\ _selectedShader' =
         IF e = "SDLK_SPACE" THEN NextShader(_selectedShader) ELSE _selectedShader
    /\ UNCHANGED << _frameNumber, _isInitialized, swapchainImageIndex, initVars,
                    memVars, syncVars, cmdBuffers, gpuVars, dqVars, logVars >>
    /\ UNCHANGED callLog

run_PollEventOf(e) == run_PollEventUpTo(e, MaxFrames)

run_PollEvent ==
    /\ pc = "poll"
    /\ \E e \in Events : run_PollEventOf(e)
    /\ UNCHANGED callLog

(***************************************************************************)
(* VulkanEngine::draw: the order of its calls.                             *)
(***************************************************************************)
DrawSequence_submitBeforeRecord ==
    << "draw_wait", "draw_resetFence", "draw_resetCmd", "draw_acquire",
       "draw_begin", "draw_submit", "draw_objects", "draw_end", "draw_present",
       "draw_inc" >>

DrawSequence ==
    << "draw_wait", "draw_resetFence", "draw_resetCmd", "draw_acquire",
       "draw_begin", "draw_objects", "draw_end", "draw_submit", "draw_present",
       "draw_inc" >>

\* The statement that follows `step` in draw(); after the last, back in run().
After(step) ==
    LET i == CHOOSE k \in 1 .. Len(DrawSequence) : DrawSequence[k] = step
    IN  IF i = Len(DrawSequence) THEN "loop_test" ELSE DrawSequence[i + 1]

\* A call checked by VK_CHECK: it is logged, and the CPU goes on or aborts.
Checked(call, err) ==
    /\ pc' = VK_CHECK(err, After(pc))
    /\ steps' = Append(steps, [call |-> call, result |-> err])

\* A call or statement whose result is not checked.
Unchecked(call) ==
    /\ pc' = After(pc)
    /\ steps' = Append(steps, [call |-> call, result |-> Void])

\* vkWaitForFences with a timeout returns once the fence is signalled, or
\* VK_TIMEOUT when the second has passed; the device may be lost at any time.
WaitResults(fence) ==
    IF fence.signaled THEN {VK_SUCCESS, VK_ERROR_DEVICE_LOST}
    ELSE {VK_TIMEOUT, VK_ERROR_DEVICE_LOST}

draw_WaitForFences_noWait ==
    /\ pc = "draw_wait"
    /\ pc' = After(pc)
    /\ steps' = << [call |-> "vkWaitForFences", result |-> VK_SUCCESS] >>
    /\ drawCalls' = drawCalls + 1
    /\ UNCHANGED iterations
    /\ UNCHANGED << cpuVars, initVars, memVars, syncVars, cmdBuffers, gpuVars, dqVars >>
    /\ UNCHANGED callLog

draw_WaitForFences ==
    /\ pc = "draw_wait"
    /\ \E err \in WaitResults(fences[get_current_frame]) :
         /\ pc' = VK_CHECK(err, After(pc))
         /\ steps' = << [call |-> "vkWaitForFences", result |-> err] >>
    /\ drawCalls' = drawCalls + 1
    /\ UNCHANGED iterations
    /\ UNCHANGED << cpuVars, initVars, memVars, syncVars, cmdBuffers, gpuVars, dqVars >>
    /\ UNCHANGED callLog

draw_ResetFences_notReset ==
    /\ pc = "draw_resetFence"
    /\ Checked("vkResetFences", VK_SUCCESS)
    /\ UNCHANGED << cpuVars, initVars, memVars, syncVars, cmdBuffers, gpuVars,
                    dqVars, drawCalls,
                    iterations >>
    /\ UNCHANGED callLog

draw_ResetFences ==
    /\ pc = "draw_resetFence"
    /\ \E err \in {VK_SUCCESS, VK_ERROR_DEVICE_LOST} :
         /\ Checked("vkResetFences", err)
         /\ fences' = IF err = VK_SUCCESS
                      THEN [fences EXCEPT ![get_current_frame] =
                                [signaled |-> FALSE, by |-> NoFrame]]
                      ELSE fences
    /\ UNCHANGED << cpuVars, initVars, memVars, semaphores, cmdBuffers, gpuVars,
                    dqVars, drawCalls,
                    iterations >>
    /\ UNCHANGED callLog

draw_ResetCommandBuffer ==
    /\ pc = "draw_resetCmd"
    /\ \E err \in {VK_SUCCESS, VK_ERROR_DEVICE_LOST} :
         /\ Checked("vkResetCommandBuffer", err)
         /\ cmdBuffers' = IF err = VK_SUCCESS
                          THEN [cmdBuffers EXCEPT ![get_current_frame] =
                                    [state |-> "initial", cmds |-> <<>>]]
                          ELSE cmdBuffers
    /\ UNCHANGED << cpuVars, initVars, memVars, syncVars, gpuVars, dqVars, drawCalls,
                    iterations >>
    /\ UNCHANGED callLog

\* vkAcquireNextImageKHR hands out the image the presentation engine (in
\* VK_PRESENT_MODE_FIFO_KHR) let go of first and arranges for the semaphore
\* to be signalled when the image may be used; with no image to hand out it
\* times out.
draw_AcquireNextImage ==
    /\ pc = "draw_acquire"
    /\ \/ /\ freeImages # <<>>
          /\ Checked("vkAcquireNextImageKHR", VK_SUCCESS)
          /\ swapchainImageIndex' = Head(freeImages)
          /\ freeImages' = Tail(freeImages)
          /\ semaphores' = [semaphores EXCEPT ![<<get_current_frame, "present">>] =
                               [st |-> "pending", by |-> _frameNumber]]
       \/ \E err \in {VK_ERROR_OUT_OF_DATE_KHR}
                     \cup (IF freeImages = <<>> THEN {VK_TIMEOUT} ELSE {}) :
            /\ Checked("vkAcquireNextImageKHR", err)
            /\ UNCHANGED << swapchainImageIndex, freeImages, semaphores >>
    /\ UNCHANGED << _frameNumber, _isInitialized, _selectedShader, bQuit, initVars,
                    memVars, fences, cmdBuffers, gpuQueue, presentQueue,
                    colorStarted, completed, presented, dqVars, drawCalls,
                    iterations >>
    /\ UNCHANGED callLog

draw_BeginCommandBuffer ==
    /\ pc = "draw_begin"
    /\ \E err \in {VK_SUCCESS, VK_ERROR_DEVICE_LOST} :
         /\ Checked("vkBeginCommandBuffer", err)
         /\ cmdBuffers' = IF err = VK_SUCCESS
                          THEN [cmdBuffers EXCEPT ![get_current_frame].state = "recording"]
                          ELSE cmdBuffers
    /\ UNCHANGED << cpuVars, initVars, memVars, syncVars, gpuVars, dqVars, drawCalls,
                    iterations >>
    /\ UNCHANGED callLog


(***************************************************************************)
(* VulkanEngine::draw_objects                                              *)
(***************************************************************************)
\* sceneData += pad_uniform_buffer_size(sizeof(GPUSceneData)) * frameIndex
SceneWriteOffset_noIndex(frameIndex) == 0

SceneWriteOffset(frameIndex) ==
    pad_uniform_buffer_size(SizeofGPUSceneData) * frameIndex

\* uint32_t uniform_offset = pad_uniform_buffer_size(sizeof(GPUSceneData)) * frameIndex
uniform_offset_noIndex(frameIndex) == 0

uniform_offset(frameIndex) ==
    LowBits(pad_uniform_buffer_size(SizeofGPUSceneData) * frameIndex,
            UniformOffsetBits)

Overlaps(a, b) == a.off < b.off + b.len /\ b.off < a.off + a.len

\* if (object.material != lastMaterial): Material* are compared, and a
\* Material* is the key of the entry it points to.
MaterialChanged_always(object, lastMaterial) == TRUE

MaterialChanged(object, lastMaterial) == object.material # lastMaterial

\* if (object.mesh != lastMesh)
MeshChanged_firstOnly(object, lastMesh) == lastMesh = NULL

MeshChanged(object, lastMesh) == object.mesh # lastMesh

\* The firstInstance argument of the vkCmdDraw of object i.
FirstInstance_zero(i) == 0

FirstInstance(i) == i

\* The first loop of draw_objects: objectSSBO[i].modelMatrix of i in 0 .. count-1,
\* as the sequence of the entries written.
ObjectSSBO_reversed(first, count) ==
    [ i \in 1 .. count |-> first[count + 1 - i].transformMatrix ]

ObjectSSBO(first, count) == [ i \in 1 .. count |-> first[i].transformMatrix ]

\* The second loop of draw_objects, from object i (counted from 0) on.
RECURSIVE RecordObjects(_, _, _, _, _, _)
RecordObjects(first, i, count, lastMesh, lastMaterial, frameIndex) ==
    IF i >= count THEN <<>>
    ELSE
      LET object == first[i + 1]
          layout == _materials[object.material].pipelineLayout
          bindMaterial ==
            IF MaterialChanged(object, lastMaterial)
            THEN << [op |-> "vkCmdBindPipeline",
                     pipeline |-> _materials[object.material].pipeline],
                    [op |-> "vkCmdBindDescriptorSets", layout |-> layout,
                     firstSet |-> 0, set |-> <<"globalDescriptor", get_current_frame>>,
                     dynamicOffsets |-> << uniform_offset(frameIndex) >>],
                    [op |-> "vkCmdBindDescriptorSets", layout |-> layout,
                     firstSet |-> 1, set |-> <<"objectDescriptor", get_current_frame>>,
                     dynamicOffsets |-> <<>>] >>
            ELSE <<>>
          pushConstants ==
            << [op |-> "vkCmdPushConstants", layout |-> layout,
                render_matrix |-> object.transformMatrix] >>
          bindMesh ==
            IF MeshChanged(object, lastMesh)
            THEN << [op |-> "vkCmdBindVertexBuffers",
                     buffer |-> _meshes[object.mesh].vertexBuffer, offset |-> 0] >>
            ELSE <<>>
          draw ==
            << [op |-> "vkCmdDraw", vertexCount |-> _meshes[object.mesh].vertices,
                instanceCount |-> 1, firstVertex |-> 0,
                firstInstance |-> FirstInstance(i)] >>
      IN  bindMaterial \o pushConstants \o bindMesh \o draw
          \o RecordObjects(first, i + 1, count, object.mesh, object.material,
                           frameIndex)

\* An object whose mesh or material pointer is null is dereferenced.
DereferencesNull(first) ==
    \E i \in 1 .. Len(first) : first[i].mesh = NULL \/ first[i].material = NULL

\* vkCmdBeginRenderPass; draw_objects(cmd, _renderables.data(),
\* _renderables.size()); vkCmdEndRenderPass
draw_DrawObjects ==
    /\ pc = "draw_objects"
    /\ IF DereferencesNull(_renderables)
       THEN /\ pc' = "crashed"
            /\ UNCHANGED << memVars, cmdBuffers, steps >>
       ELSE
         LET slot == get_current_frame
             frameIndex == _frameNumber % FRAME_OVERLAP
             count == Len(_renderables)
             written == [off |-> SceneWriteOffset(frameIndex),
                         len |-> SizeofGPUSceneData]
         IN  /\ cameraMem' = [cameraMem EXCEPT ![slot] = _frameNumber]
             /\ sceneMem' = { r \in sceneMem : ~Overlaps(r, written) }
                            \cup { [off |-> written.off, len |-> written.len,
                                    stamp |-> _frameNumber] }
             /\ lastSceneWrite' = written
             /\ objectMem' = [objectMem EXCEPT ![slot] =
                                [stamp |-> _frameNumber,
                                 data |-> ObjectSSBO(_renderables, count)]]
             /\ cmdBuffers' = [cmdBuffers EXCEPT ![slot].cmds =
                                 @ \o << [op |-> "vkCmdBeginRenderPass",
                                          framebuffer |-> swapchainImageIndex] >>
                                   \o RecordObjects(_renderables, 0, count, NULL, NULL,
                                                    frameIndex)
                                   \o << [op |-> "vkCmdEndRenderPass"] >>]
             /\ pc' = After(pc)
             /\ steps' = steps \o << [call |-> "write cameraBuffer", result |-> Void],
                                     [call |-> "write sceneParameterBuffer", result |-> Void],
                                     [call |-> "write objectBuffer", result |-> Void],
                                     [call |-> "record", result |-> Void] >>
    /\ UNCHANGED << cpuVars, initVars, syncVars, gpuVars, dqVars, drawCalls,
                    iterations >>
    /\ UNCHANGED callLog

draw_EndCommandBuffer ==
    /\ pc = "draw_end"
    /\ \E err \in {VK_SUCCESS, VK_ERROR_DEVICE_LOST} :
         /\ Checked("vkEndCommandBuffer", err)
         /\ cmdBuffers' = IF err = VK_SUCCESS
                          THEN [cmdBuffers EXCEPT ![get_current_frame].state = "executable"]
                          ELSE cmdBuffers
    /\ UNCHANGED << cpuVars, initVars, memVars, syncVars, gpuVars, dqVars, drawCalls,
                    iterations >>
    /\ UNCHANGED callLog

(***************************************************************************)
(* What a recorded command buffer makes the GPU read.                      *)
(***************************************************************************)
ReadsOf(c) ==
    IF c.op = "vkCmdBindDescriptorSets"
    THEN LET d == descriptors[c.set[2]]
         IN  IF c.firstSet = 0
             THEN { [buffer |-> d.camera.buffer, off |-> d.camera.offset,
                     len |-> d.camera.range],
                    [buffer |-> d.scene.buffer,
                     off |-> d.scene.offset + c.dynamicOffsets[1],
                     len |-> d.scene.range] }
             ELSE { [buffer |-> d.object.buffer, off |-> d.object.offset,
                     len |-> d.object.range] }
    ELSE {}

Reads(cmds) == UNION { ReadsOf(cmds[i]) : i \in 1 .. Len(cmds) }

(***************************************************************************)
(* VulkanEngine::draw: submission and presentation.                        *)
(***************************************************************************)
\* submit.pWaitSemaphores
SubmitWaitSemaphore == <<get_current_frame, "present">>

\* submit.pSignalSemaphores
SubmitSignalSemaphore == <<get_current_frame, "render">>

\* the fence given to vkQueueSubmit
SubmitFence_otherSlot == (get_current_frame + 1) % FRAME_OVERLAP

SubmitFence == get_current_frame

\* presentInfo.pWaitSemaphores
PresentWaitSemaphore_acquire == <<get_current_frame, "present">>

PresentWaitSemaphore == <<get_current_frame, "render">>

draw_QueueSubmit ==
    /\ pc = "draw_submit"
    /\ \E err \in {VK_SUCCESS, VK_ERROR_DEVICE_LOST} :
         /\ Checked("vkQueueSubmit", err)
         /\ IF err = VK_SUCCESS
            THEN /\ gpuQueue' =
                      Append(gpuQueue,
                             [frame |-> _frameNumber,
                              cmdBuffer |-> get_current_frame,
                              reads |-> Reads(cmdBuffers[get_current_frame].cmds),
                              data |-> [camera |-> cameraMem[get_current_frame],
                                        object |-> objectMem[get_current_frame].stamp,
                                        scene |-> sceneMem],
                              waitSemaphore |-> SubmitWaitSemaphore,
                              signalSemaphore |-> SubmitSignalSemaphore,
                              fence |-> SubmitFence,
                              st |-> "queued"])
                 /\ cmdBuffers' = [cmdBuffers EXCEPT ![get_current_frame].state = "pending"]
            ELSE UNCHANGED << gpuQueue, cmdBuffers >>
    /\ UNCHANGED << cpuVars, initVars, memVars, syncVars, freeImages, presentQueue,
                    colorStarted, completed, presented, dqVars, drawCalls,
                    iterations >>
    /\ UNCHANGED callLog

draw_QueuePresent ==
    /\ pc = "draw_present"
    /\ \E err \in {VK_SUCCESS, VK_ERROR_OUT_OF_DATE_KHR} :
         /\ Checked("vkQueuePresentKHR", err)
         /\ IF err = VK_SUCCESS
            THEN /\ presentQueue' =
                      Append(presentQueue,
                             [frame |-> _frameNumber,
                              waitSemaphore |-> PresentWaitSemaphore,
                              image |-> swapchainImageIndex])
            ELSE UNCHANGED presentQueue
    /\ UNCHANGED << cpuVars, initVars, memVars, syncVars, cmdBuffers, gpuQueue,
                    freeImages, colorStarted, completed, presented, dqVars, drawCalls,
                    iterations >>
    /\ UNCHANGED callLog

\* _frameNumber++
draw_IncrementFrameNumber ==
    /\ pc = "draw_inc"
    /\ Unchecked("_frameNumber++")
    /\ _frameNumber' = _frameNumber + 1
    /\ swapchainImageIndex' = NoImage
    /\ UNCHANGED << _isInitialized, _selectedShader, bQuit, initVars, memVars,
                    syncVars, cmdBuffers, gpuVars, dqVars, drawCalls,
                    iterations >>
    /\ UNCHANGED callLog


(***************************************************************************)
(* The device: what the calls of draw() make it do, concurrently with the  *)
(* CPU.  Submissions of one queue start and complete in submission order.  *)
(***************************************************************************)
\* The device works for the process as long as the process lives and has not
\* destroyed it.
DeviceAlive == pc \notin {"done", "aborted", "crashed"}

\* The presentation engine lets go of an acquired image: the semaphore given
\* to vkAcquireNextImageKHR is signalled.
gpu_SignalAcquire ==
    /\ DeviceAlive
    /\ \E s \in DOMAIN semaphores :
         /\ semaphores[s].st = "pending"
         /\ semaphores' = [semaphores EXCEPT ![s].st = "signaled"]
    /\ UNCHANGED << pc, cpuVars, initVars, memVars, fences, cmdBuffers, gpuVars,
                    dqVars, logVars >>
    /\ UNCHANGED callLog

\* The first submission still waiting passes its semaphore wait at the
\* colour-attachment-output stage; the wait unsignals the semaphore.
gpu_BeginColorOutput ==
    /\ DeviceAlive
    /\ \E i \in 1 .. Len(gpuQueue) :
         /\ gpuQueue[i].st = "queued"
         /\ \A j \in 1 .. (i - 1) : gpuQueue[j].st # "queued"
         /\ semaphores[gpuQueue[i].waitSemaphore].st = "signaled"
         /\ gpuQueue' = [gpuQueue EXCEPT ![i].st = "executing"]
         /\ colorStarted' = colorStarted \cup
                              { [frame |-> gpuQueue[i].frame,
                                 by |-> semaphores[gpuQueue[i].waitSemaphore].by] }
         /\ semaphores' = [semaphores EXCEPT ![gpuQueue[i].waitSemaphore] =
                              [st |-> "unsignaled", by |-> NoFrame]]
    /\ UNCHANGED << pc, cpuVars, initVars, memVars, fences, cmdBuffers, freeImages,
                    presentQueue, completed, presented, dqVars, logVars >>
    /\ UNCHANGED callLog

\* The oldest submission completes: its semaphore and its fence are signalled.
gpu_Complete ==
    /\ DeviceAlive
    /\ gpuQueue # <<>>
    /\ Head(gpuQueue).st = "executing"
    /\ LET sub == Head(gpuQueue)
       IN  /\ gpuQueue' = Tail(gpuQueue)
           /\ completed' = completed \cup {sub.frame}
           /\ semaphores' = [semaphores EXCEPT ![sub.signalSemaphore] =
                                [st |-> "signaled", by |-> sub.frame]]
           /\ fences' = [fences EXCEPT ![sub.fence] =
                            [signaled |-> TRUE, by |-> sub.frame]]
           /\ cmdBuffers' = [cmdBuffers EXCEPT ![sub.cmdBuffer].state =
                                IF @ = "pending" THEN "invalid" ELSE @]
    /\ UNCHANGED << pc, cpuVars, initVars, memVars, freeImages, presentQueue,
                    colorStarted, presented, dqVars, logVars >>
    /\ UNCHANGED callLog

\* The oldest presentation request passes its semaphore wait: the image goes
\* to the screen and can be acquired again.
gpu_Present ==
    /\ DeviceAlive
    /\ presentQueue # <<>>
    /\ LET req == Head(presentQueue)
       IN  /\ semaphores[req.waitSemaphore].st = "signaled"
           /\ presentQueue' = Tail(presentQueue)
           /\ presented' = presented \cup
                             { [frame |-> req.frame,
                                by |-> semaphores[req.waitSemaphore].by,
                                done |-> req.frame \in completed] }
           /\ semaphores' = [semaphores EXCEPT ![req.waitSemaphore] =
                                [st |-> "unsignaled", by |-> NoFrame]]
           /\ freeImages' = Append(freeImages, req.image)
    /\ UNCHANGED << pc, cpuVars, initVars, memVars, fences, cmdBuffers, gpuQueue,
                    colorStarted, completed, dqVars, logVars >>
    /\ UNCHANGED callLog

(***************************************************************************)
(* VulkanEngine::cleanup, called once run() has returned.                  *)
(***************************************************************************)
RunReturned == pc = "run_returned"

\* vkWaitForFences(..., &get_current_frame()._renderFence, ...): the result
\* is not looked at, so cleanup goes on when the wait succeeded and when it
\* timed out.
cleanup_WaitForFences ==
    /\ RunReturned
    /\ _isInitialized
    /\ \E err \in WaitResults(fences[get_current_frame]) : pc' = "cleanup_flush"
    /\ UNCHANGED << cpuVars, initVars, memVars, syncVars, cmdBuffers, gpuVars,
                    dqVars, logVars >>
    /\ UNCHANGED callLog

flush_withoutClear ==
    /\ \E junk \in SUBSET LocalCalls(deletors) :
         executed' = executed
                     \o Resolve(Calls(RunDeletors(deletors, Len(deletors))), junk)
    /\ deletors' = deletors
    /\ expected' = expected \o Reverse(pushed)
    /\ pushed' = <<>>

\* DeletionQueue::flush on _mainDeletionQueue
flush ==
    /\ \E junk \in SUBSET LocalCalls(deletors) :
         executed' = executed
                     \o Resolve(Calls(RunDeletors(deletors, Len(deletors))), junk)
    /\ deletors' = <<>>
    /\ expected' = expected \o Reverse(pushed)
    /\ pushed' = <<>>

cleanup_Flush ==
    /\ pc = "cleanup_flush"
    /\ flush
    /\ pc' = "cleanup_destroy"
    /\ UNCHANGED << cpuVars, initVars, memVars, syncVars, cmdBuffers, gpuVars, logVars >>
    /\ UNCHANGED callLog

cleanup_DestroyDevice ==
    /\ pc = "cleanup_destroy"
    /\ executed' = executed
                   \o << Destroy("vkb::destroy_debug_utils_messenger", "debug_messenger", 0),
                         Destroy("vkDestroySurfaceKHR", "surface", 0),
                         Destroy("vkDestroyDevice", "device", 0),
                         Destroy("vkDestroyInstance", "instance", 0),
                         Destroy("SDL_DestroyWindow", "window", 0) >>
    /\ pc' = "done"
    /\ UNCHANGED << cpuVars, initVars, memVars, syncVars, cmdBuffers, gpuVars,
                    deletors, pushed, expected, logVars >>
    /\ UNCHANGED callLog

(***************************************************************************)
(* The engine.                                                             *)
(***************************************************************************)
\* The engine as constructed, with the CPU at `start`.
Constructed(start) ==
    /\ pc = start
    /\ _frameNumber = 0
    /\ _isInitialized = FALSE
    /\ _selectedShader = 0
    /\ bQuit = FALSE
    /\ swapchainImageIndex = NoImage
    /\ minUboAlignment = 0
    /\ fences = [ i \in Slots |-> [signaled |-> FALSE, by |-> NoFrame] ]
    /\ semaphores = [ s \in Slots \X {"present", "render"} |->
                        [st |-> "unsignaled", by |-> NoFrame] ]
    /\ cmdBuffers = [ i \in Slots |-> [state |-> "unallocated", cmds |-> <<>>] ]
    /\ descriptors = <<>>
    /\ sceneBufferSize = 0
    /\ cameraMem = [ i \in Slots |-> NoFrame ]
    /\ sceneMem = {}
    /\ objectMem = [ i \in Slots |-> [stamp |-> NoFrame, data |-> <<>>] ]
    /\ lastSceneWrite = [off |-> 0, len |-> 0]
    /\ _materials = <<>>
    /\ _meshes = <<>>
    /\ _renderables = <<>>
    /\ freeImages = [ k \in 1 .. NumImages |-> k - 1 ]
    /\ gpuQueue = <<>>
    /\ presentQueue = <<>>
    /\ colorStarted = {}
    /\ completed = {}
    /\ presented = {}
    /\ deletors = <<>>
    /\ uploads = 0
    /\ executed = <<>>
    /\ pushed = <<>>
    /\ expected = <<>>
    /\ created = <<>>
    /\ steps = <<>>
    /\ drawCalls = 0
    /\ iterations = 0
    /\ callLog = <<>>

Init == Constructed("init_vulkan")

Next ==
    \/ init_vulkan
    \/ init_swapchain
    \/ init_default_renderpass
    \/ init_framebuffers
    \/ init_commands
    \/ init_sync_structures
    \/ init_descriptors
    \/ init_pipelines
    \/ load_meshes
    \/ init_scene
    \/ run_LoopTest
    \/ run_PollEvent
    \/ draw_WaitForFences
    \/ draw_ResetFences
    \/ draw_ResetCommandBuffer
    \/ draw_AcquireNextImage
    \/ draw_BeginCommandBuffer
    \/ draw_DrawObjects
    \/ draw_EndCommandBuffer
    \/ draw_QueueSubmit
    \/ draw_QueuePresent
    \/ draw_IncrementFrameNumber
    \/ gpu_SignalAcquire
    \/ gpu_BeginColorOutput
    \/ gpu_Complete
    \/ gpu_Present
    \/ cleanup_WaitForFences
    \/ cleanup_Flush
    \/ cleanup_DestroyDevice

Spec == Init /\ [][Next]_vars

\* The steps of run() other than a turn of its polling loop: the test of the
\* loop and the statements of draw().
RunStep ==
    \/ run_LoopTest
    \/ draw_WaitForFences
    \/ draw_ResetFences
    \/ draw_ResetCommandBuffer
    \/ draw_AcquireNextImage
    \/ draw_BeginCommandBuffer
    \/ draw_DrawObjects
    \/ draw_EndCommandBuffer
    \/ draw_QueueSubmit
    \/ draw_QueuePresent
    \/ draw_IncrementFrameNumber

\* The engine with the scheduling of run(): the thread that runs it goes on
\* (every call it makes returns: the two waits are bounded by a timeout of
\* one second), and the event queue that SDL_PollEvent empties does run
\* empty, so that the polling loop ends.
SpecLive ==
    /\ Init
    /\ [][Next]_vars
    /\ WF_vars(RunStep)
    /\ WF_vars(run_PollEventOf("none"))


\* The steps of the device and of the presentation engine.
GpuStep ==
    \/ gpu_SignalAcquire
    \/ gpu_BeginColorOutput
    \/ gpu_Complete
    \/ gpu_Present

\* A turn of the polling loop of run() in which no quit event arrives.
loop_PollEvent ==
    \E e \in Events \ {"SDL_QUIT"} : run_PollEventUpTo(e, MaxLoopFrames)

\* init() followed by the main loop of run() while no quit event arrives.
NextLoop ==
    \/ init_vulkan
    \/ init_swapchain
    \/ init_default_renderpass
    \/ init_framebuffers
    \/ init_commands
    \/ init_sync_structures
    \/ init_descriptors
    \/ init_pipelines
    \/ load_meshes
    \/ init_scene
    \/ run_LoopTest
    \/ loop_PollEvent
    \/ draw_WaitForFences
    \/ draw_ResetFences
    \/ draw_ResetCommandBuffer
    \/ draw_AcquireNextImage
    \/ draw_BeginCommandBuffer
    \/ draw_DrawObjects
    \/ draw_EndCommandBuffer
    \/ draw_QueueSubmit
    \/ draw_QueuePresent
    \/ draw_IncrementFrameNumber
    \/ gpu_SignalAcquire
    \/ gpu_BeginColorOutput
    \/ gpu_Complete
    \/ gpu_Present

\* The main loop with its scheduling: the thread of run() goes on, the event
\* queue runs empty, and the device and the presentation engine finish the
\* work that is ready for them.
SpecLoop ==
    /\ Init
    /\ [][NextLoop]_vars
    /\ WF_vars(RunStep)
    /\ WF_vars(run_PollEventUpTo("none", MaxLoopFrames))
    /\ WF_vars(GpuStep)


(***************************************************************************)
(* A DeletionQueue on its own: any sequence of push_function and flush.    *)
(***************************************************************************)
dq_push_function ==
    /\ pc = "dq"
    /\ Len(executed) + Len(deletors) < MaxPushes
    /\ \E a \in 1 .. NumActions : Push(<< Destroy("action", "action", a) >>)
    /\ UNCHANGED << pc, cpuVars, initVars, memVars, syncVars, cmdBuffers, gpuVars,
                    logVars >>
    /\ UNCHANGED callLog

dq_flush ==
    /\ pc = "dq"
    /\ flush
    /\ UNCHANGED << pc, cpuVars, initVars, memVars, syncVars, cmdBuffers, gpuVars,
                    logVars >>
    /\ UNCHANGED callLog

InitDQ == Constructed("dq")

NextDQ ==
    \/ dq_push_function
    \/ dq_flush

SpecDQ == InitDQ /\ [][NextDQ]_vars


(***************************************************************************)
(* pad_uniform_buffer_size on its own: the device reports an alignment,    *)
(* then the function is applied to any size, and again to what it returned.*)
(***************************************************************************)
\* _gpuProperties = vkbDevice.physical_device.properties
pad_GetProperties ==
    /\ pc = "pad_properties"
    /\ \E a \in Alignments : minUboAlignment' = a
    /\ pc' = "pad"
    /\ UNCHANGED << cpuVars, descriptors, sceneBufferSize, _materials, _meshes,
                    _renderables, uploads, created, memVars, syncVars, cmdBuffers, gpuVars,
                    dqVars, logVars, callLog >>

\* The call pad_uniform_buffer_size(originalSize), with what it returns.
pad_Call(originalSize) ==
    /\ callLog' = Append(callLog, [fn |-> "pad_uniform_buffer_size",
                                   originalSize |-> originalSize,
                                   alignedSize |-> pad_uniform_buffer_size(originalSize)])
    /\ UNCHANGED << pc, cpuVars, initVars, memVars, syncVars, cmdBuffers, gpuVars,
                    dqVars, logVars >>

pad_Apply ==
    /\ pc = "pad"
    /\ callLog = <<>>
    /\ \E originalSize \in 0 .. Pow2(SizeBits) - 1 : pad_Call(originalSize)

pad_ApplyAgain ==
    /\ pc = "pad"
    /\ Len(callLog) = 1
    /\ pad_Call(callLog[1].alignedSize)

InitPad == Constructed("pad_properties")

NextPad ==
    \/ pad_GetProperties
    \/ pad_Apply
    \/ pad_ApplyAgain

SpecPad == InitPad /\ [][NextPad]_vars


(***************************************************************************)
(* draw_objects on its own: a scene is built (two materials, two meshes,   *)
(* any list of render objects that point into the registries), then        *)
(* draw_objects runs on it inside frame 0 or frame 1.                      *)
(***************************************************************************)
\* The transforms given to the render objects.
Transforms ==
    { [translate |-> <<0, 0, 0>>, scale |-> <<1, 1>>],
      [translate |-> <<1, 0, 0>>, scale |-> <<1, 5>>] }

\* RenderObject values whose pointers come from get_mesh / get_material.
RenderObjects ==
    [ mesh : {"monkey", "triangle"}, material : {"defaultmesh", "redmesh"},
      transformMatrix : Transforms ]

\* create_material twice, the registry of load_meshes, _renderables.push_back
\* for every object; then draw() up to its call of draw_objects.
obj_Scene ==
    /\ pc = "objects_scene"
    /\ _materials' =
         [ n \in {"defaultmesh", "redmesh"} |->
             LET k == IF n = "defaultmesh" THEN 0 ELSE 1
             IN  [pipeline |-> <<"pipeline", k>>,
                  pipelineLayout |-> <<"pipelineLayout", k>>] ]
    /\ _meshes' =
         [ n \in {"monkey", "triangle"} |->
             IF n = "monkey"
             THEN [vertices |-> MonkeyVertices, vertexBuffer |-> <<"vertexBuffer", 0>>]
             ELSE [vertices |-> 3, vertexBuffer |-> <<"vertexBuffer", 1>>] ]
    /\ \E n \in 0 .. MaxObjects :
         \E list \in [1 .. n -> RenderObjects] : _renderables' = list
    /\ \E k \in 0 .. FRAME_OVERLAP - 1 : _frameNumber' = k
    /\ swapchainImageIndex' = 0
    /\ cmdBuffers' = [ i \in Slots |-> [state |-> "recording", cmds |-> <<>>] ]
    /\ pc' = "draw_objects"
    /\ UNCHANGED << _isInitialized, _selectedShader, bQuit, minUboAlignment,
                    descriptors, sceneBufferSize, uploads, created, memVars,
                    syncVars, gpuVars, dqVars, logVars, callLog >>

InitObjects == Constructed("objects_scene")

NextObjects ==
    \/ obj_Scene
    \/ draw_DrawObjects

SpecObjects == InitObjects /\ [][NextObjects]_vars


(***************************************************************************)
(* The registries on their own: any sequence of create_material, of the    *)
(* assignments of load_meshes, and of get_material and get_mesh with       *)
(* registered and unregistered names.  callLog holds the latest call, with *)
(* the registry as it was before the call.                                 *)
(***************************************************************************)
RegisteredNames == {"defaultmesh", "redmesh"}
MeshNames == {"monkey", "triangle"}
LookupNames == RegisteredNames \cup MeshNames \cup {"missing"}
Handles(kind) == { <<kind, k>> : k \in 0 .. NumHandles - 1 }

reg_create_material ==
    /\ pc = "registry"
    /\ \E pipeline \in Handles("pipeline"), layout \in Handles("pipelineLayout"),
          name \in RegisteredNames :
         /\ _materials' = create_material(pipeline, layout, name)
         /\ callLog' = << [fn |-> "create_material", pipeline |-> pipeline,
                           layout |-> layout, name |-> name, before |-> _materials,
                           ret |-> create_material_return(name)] >>
    /\ UNCHANGED << pc, cpuVars, created, minUboAlignment, descriptors, sceneBufferSize,
                    _meshes, _renderables, uploads, memVars, syncVars, cmdBuffers,
                    gpuVars, dqVars, logVars >>

\* _meshes["monkey"] = _monkeyMesh; _meshes["triangle"] = _triangleMesh
reg_load_meshes ==
    /\ pc = "registry"
    /\ uploads < NumHandles
    /\ _meshes' = [ n \in MeshNames |->
                      [vertices |-> IF n = "monkey" THEN MonkeyVertices ELSE 3,
                       vertexBuffer |-> <<"vertexBuffer", uploads>>] ]
    /\ uploads' = uploads + 1
    /\ callLog' = <<>>
    /\ UNCHANGED << pc, cpuVars, created, minUboAlignment, descriptors, sceneBufferSize,
                    _materials, _renderables, memVars, syncVars, cmdBuffers,
                    gpuVars, dqVars, logVars >>

reg_get_material ==
    /\ pc = "registry"
    /\ \E name \in LookupNames :
         /\ _materials' = find(_materials, name).map
         /\ callLog' = << [fn |-> "get_material", name |-> name,
                           before |-> _materials, ret |-> get_material(name)] >>
    /\ UNCHANGED << pc, cpuVars, created, minUboAlignment, descriptors, sceneBufferSize,
                    _meshes, _renderables, uploads, memVars, syncVars, cmdBuffers,
                    gpuVars, dqVars, logVars >>

reg_get_mesh ==
    /\ pc = "registry"
    /\ \E name \in LookupNames :
         /\ _meshes' = find(_meshes, name).map
         /\ callLog' = << [fn |-> "get_mesh", name |-> name,
                           before |-> _meshes, ret |-> get_mesh(name)] >>
    /\ UNCHANGED << pc, cpuVars, created, minUboAlignment, descriptors, sceneBufferSize,
                    _materials, _renderables, uploads, memVars, syncVars, cmdBuffers,
                    gpuVars, dqVars, logVars >>

InitRegistry == Constructed("registry")

NextRegistry ==
    \/ reg_create_material
    \/ reg_load_meshes
    \/ reg_get_material
    \/ reg_get_mesh

SpecRegistry == InitRegistry /\ [][NextRegistry]_vars


(***************************************************************************)
(* load_shader_module on its own: any file (missing, or of any size), any  *)
(* answer of the driver, any value in the caller's VkShaderModule.         *)
(***************************************************************************)
ShaderFiles ==
    { [is_open |-> FALSE, size |-> 0] }
    \cup { [is_open |-> TRUE, size |-> n] : n \in 0 .. MaxFileSize }

\* The caller's variable: not initialised, or a module stored before.
OutShaderModules ==
    { <<"uninitialized", 0>> } \cup { <<"shaderModule", k>> : k \in 0 .. NumHandles - 1 }

shader_load_shader_module ==
    /\ pc = "shader_module"
    /\ \E file \in ShaderFiles, driver \in CreateShaderModuleResults,
          outShaderModule \in OutShaderModules :
         \E heap \in (IF file.is_open THEN ReadOutcomes(file.size) ELSE {"intact"}) :
           LET call == load_shader_module(file, heap, driver, outShaderModule)
               reached == file.is_open /\ call.end = "returned"
           IN  callLog' = << [fn |-> "load_shader_module", file |-> file,
                              before |-> outShaderModule,
                              created |-> IF reached THEN driver
                                          ELSE [result |-> "not called",
                                                shaderModule |-> <<"unset", 0>>],
                              call |-> call] >>
    /\ UNCHANGED << pc, cpuVars, initVars, memVars, syncVars, cmdBuffers, gpuVars,
                    dqVars, logVars >>

InitShaderModule == Constructed("shader_module")

NextShaderModule == shader_load_shader_module

SpecShaderModule == InitShaderModule /\ [][NextShaderModule]_vars


(***************************************************************************)
(* The start-up with every outcome of its calls: init() as above, with     *)
(* init_pipelines and load_meshes ending in any of the ways their calls    *)
(* allow, then run() and draw() up to the call of draw_objects.            *)
(***************************************************************************)
\* The ways a load_shader_module call of init_pipelines can end.
ShaderCalls ==
    { load_shader_module(file, heap, driver, <<"uninitialized", 0>>) :
        file \in ShaderFiles, heap \in {"intact", "corrupted"},
        driver \in CreateShaderModuleResults }

\* What vkCreatePipelineLayout and vmaCreateBuffer can return.
CreateResults == {VK_SUCCESS, "VK_ERROR_OUT_OF_DEVICE_MEMORY"}

startup_init_pipelines ==
    \E frag \in ShaderCalls, vert \in ShaderCalls, layoutResult \in CreateResults,
       meshPipeline \in {<<"pipeline", 0>>, VK_NULL_HANDLE} :
        init_pipelinesOf(frag, vert, layoutResult, meshPipeline)

startup_load_meshes ==
    \E monkeyVertices \in {0, MonkeyVertices},
       monkeyResult \in CreateResults, triangleResult \in CreateResults :
        load_meshesOf(monkeyVertices, monkeyResult, triangleResult)

\* run() finds no event and calls draw(), which goes up to its call of
\* draw_objects, in frame 0 or in frame 1.
startup_Draw ==
    /\ pc = "loop_test"
    /\ \E k \in 0 .. FRAME_OVERLAP - 1 : _frameNumber' = k
    /\ swapchainImageIndex' = 0
    /\ cmdBuffers' = [ i \in Slots |-> [state |-> "recording", cmds |-> <<>>] ]
    /\ pc' = "draw_objects"
    /\ UNCHANGED << _isInitialized, _selectedShader, bQuit, initVars, memVars,
                    syncVars, gpuVars, dqVars, logVars, callLog >>

NextStartup ==
    \/ init_vulkan
    \/ init_swapchain
    \/ init_default_renderpass
    \/ init_framebuffers
    \/ init_commands
    \/ init_sync_structures
    \/ init_descriptors
    \/ startup_init_pipelines
    \/ startup_load_meshes
    \/ init_scene
    \/ startup_Draw
    \/ draw_DrawObjects

SpecStartup == Init /\ [][NextStartup]_vars


(***************************************************************************)
(* Properties of the frame loop.                                           *)
(***************************************************************************)
\* The submissions still on the GPU, as a set.
InFlight == { gpuQueue[i] : i \in 1 .. Len(gpuQueue) }

\* A submission uses slot s: it executes s's command buffer or reads s's
\* camera or object buffer.
UsesSlot(sub, s) ==
    \/ sub.cmdBuffer = s
    \/ \E r \in sub.reads : r.buffer \in { <<"cameraBuffer", s>>, <<"objectBuffer", s>> }

\* The CPU is about to reset, begin, record into or end the current slot's
\* command buffer, or to write the slot's camera and object buffers.
CpuTouchesSlot == pc \in {"draw_resetCmd", "draw_begin", "draw_objects", "draw_end"}

\* C1: whenever the CPU resets or re-records the command buffer of the
\* current slot, or writes the slot's camera or object buffer, no submission
\* that uses the slot is still on the GPU, and the submission of the frame
\* two before (the previous user of the slot) has completed.
C1_SlotUntouchedWhileInFlight ==
    CpuTouchesSlot =>
        /\ \A sub \in InFlight : ~UsesSlot(sub, get_current_frame)
        /\ _frameNumber >= FRAME_OVERLAP =>
               (_frameNumber - FRAME_OVERLAP) \in completed

\* The CPU writes the buffers of a slot used before, while the frame of the
\* other slot is still on the GPU.
C1_Witness ==
    /\ pc = "draw_objects"
    /\ _frameNumber >= FRAME_OVERLAP
    /\ \E sub \in InFlight : sub.frame = _frameNumber - 1

\* C2: at most FRAME_OVERLAP submissions are unfinished at any time, and a
\* frame is on the GPU only if the frame two before it has completed.
C2_AtMostTwoInFlight ==
    /\ Len(gpuQueue) <= FRAME_OVERLAP
    /\ \A sub \in InFlight :
           sub.frame >= FRAME_OVERLAP => (sub.frame - FRAME_OVERLAP) \in completed

\* Two frames are on the GPU at once, the later one reusing a slot.
C2_Witness ==
    /\ Len(gpuQueue) = FRAME_OVERLAP
    /\ \E sub \in InFlight : sub.frame >= FRAME_OVERLAP

\* C3: a frame's colour output starts only on the signal of that frame's
\* image acquisition; an image is presented only once the frame's
\* submission has completed; a fence that a submission signalled is the
\* fence of the slot of a completed frame; and the completion of a frame's
\* submission signals the render semaphore and the fence of the frame's slot.
C3_SemaphoreChain ==
    /\ [](/\ \A c \in colorStarted : c.by = c.frame
          /\ \A p \in presented : p.done
          /\ \A s \in Slots :
                 (fences[s].signaled /\ fences[s].by # NoFrame) =>
                     /\ fences[s].by \in completed
                     /\ fences[s].by % FRAME_OVERLAP = s)
    /\ [][\A k \in completed' \ completed :
              /\ fences'[k % FRAME_OVERLAP] = [signaled |-> TRUE, by |-> k]
              /\ semaphores'[<<k % FRAME_OVERLAP, "render">>] =
                     [st |-> "signaled", by |-> k]]_vars

\* A frame that reused a slot has been rendered and presented.
C3_Witness ==
    /\ \E p \in presented : p.frame >= FRAME_OVERLAP
    /\ \E c \in colorStarted : c.frame >= FRAME_OVERLAP

\* The calls of one draw(), in order.
FullDraw ==
    << "vkWaitForFences", "vkResetFences", "vkResetCommandBuffer",
       "vkAcquireNextImageKHR", "vkBeginCommandBuffer", "write cameraBuffer",
       "write sceneParameterBuffer", "write objectBuffer", "record",
       "vkEndCommandBuffer", "vkQueueSubmit", "vkQueuePresentKHR",
       "_frameNumber++" >>

InDraw == \E i \in 1 .. Len(DrawSequence) : DrawSequence[i] = pc

\* The scene slice a submission reads.
SceneReads(sub) == { r \in sub.reads : r.buffer = <<"sceneParameterBuffer", 0>> }

\* C4: while a draw() runs its calls so far are the first calls of FullDraw,
\* when it has returned they are exactly FullDraw, each once; the frame
\* counter has gone up by one per returned call; and what a submission was
\* given to read had been written by its own frame before the submit.
C4_DrawOrder ==
    /\ (drawCalls > 0 /\ pc # "aborted") =>
           /\ Len(steps) <= Len(FullDraw)
           /\ \A i \in 1 .. Len(steps) :
                  /\ steps[i].call = FullDraw[i]
                  /\ steps[i].result \in {VK_SUCCESS, Void}
    /\ (drawCalls > 0 /\ ~InDraw /\ pc \notin {"aborted", "crashed"}) =>
           /\ Len(steps) = Len(FullDraw)
           /\ _frameNumber = drawCalls
    /\ \A sub \in InFlight :
           /\ sub.data.camera = sub.frame
           /\ sub.data.object = sub.frame
           /\ \A r \in SceneReads(sub) :
                  \E w \in sub.data.scene :
                      w.stamp = sub.frame /\ w.off = r.off /\ w.len = r.len
           /\ SceneReads(sub) # {}

\* The third call of draw() has returned.
C4_Witness ==
    /\ pc = "loop_test"
    /\ _frameNumber = FRAME_OVERLAP + 1
    /\ gpuQueue # <<>>


\* C5: cleanup() runs no teardown action while a submitted frame is still
\* executing on the GPU: whenever the flush of cleanup() destroys something,
\* no submission is unfinished.
C5_FlushOnlyWhenIdle ==
    [][(pc = "cleanup_flush" /\ executed' # executed) => gpuQueue = <<>>]_vars

(***************************************************************************)
(* Properties of the DeletionQueue.                                        *)
(***************************************************************************)
\* C6: the closures run by the flushes so far are the closures pushed, each
\* once, every flush running those pushed since the flush before in the
\* reverse of the order they were pushed in.
C6_FlushIsLIFO ==
    /\ Len(executed) = Len(expected)
    /\ \A i \in 1 .. Len(executed) : << executed[i] >> = expected[i]

\* A flush has run three closures that were pushed in another order.
C6_Witness ==
    /\ pc = "dq"
    /\ deletors = <<>>
    /\ Len(executed) >= 3
    /\ executed[1].handle[2] > executed[2].handle[2]
    /\ executed[2].handle[2] > executed[3].handle[2]

(***************************************************************************)
(* Errors in draw().                                                       *)
(***************************************************************************)
Failed(step) == step.result \notin {VK_SUCCESS, Void}

Submitted(frame) ==
    \/ \E sub \in InFlight : sub.frame = frame
    \/ frame \in completed

PresentRequested(frame) ==
    \/ \E i \in 1 .. Len(presentQueue) : presentQueue[i].frame = frame
    \/ \E p \in presented : p.frame = frame

\* The calls of draw() that come before the queue submit has been made.
UpToSubmit ==
    { "vkWaitForFences", "vkResetFences", "vkResetCommandBuffer",
      "vkAcquireNextImageKHR", "vkBeginCommandBuffer", "vkEndCommandBuffer",
      "vkQueueSubmit" }

\* C7: a checked call of draw() that returns a non-success status is the
\* last thing the process does: it is aborted there, the frame is not
\* submitted if the call is the submit or comes before it, the frame is not
\* presented, the frame counter keeps the value it had when draw() was
\* entered, and an aborted process makes no further call.
C7_AbortOnError ==
    /\ [](/\ \A i \in 1 .. Len(steps) :
                 Failed(steps[i]) =>
                     /\ pc = "aborted"
                     /\ i = Len(steps)
                     /\ _frameNumber = drawCalls - 1
                     /\ steps[i].call \in UpToSubmit => ~Submitted(_frameNumber)
                     /\ ~PresentRequested(_frameNumber)
          /\ pc = "aborted" => (steps # <<>> /\ Failed(steps[Len(steps)])))
    /\ [][pc = "aborted" => UNCHANGED vars]_vars

\* The process was aborted by a failed call after the frame was submitted.
C7_Witness ==
    /\ pc = "aborted"
    /\ steps[Len(steps)].call = "vkQueuePresentKHR"
    /\ _frameNumber >= 1

(***************************************************************************)
(* The shared scene buffer.                                                *)
(***************************************************************************)
SceneStride == pad_uniform_buffer_size(SizeofGPUSceneData)

\* draw_objects has just returned.
AfterDrawObjects == pc = "draw_end"

\* The binds of descriptor set 0 in the command buffer of the current slot.
GlobalBinds ==
    LET cmds == cmdBuffers[get_current_frame].cmds
    IN  { cmds[i] : i \in { j \in 1 .. Len(cmds) :
                              /\ cmds[j].op = "vkCmdBindDescriptorSets"
                              /\ cmds[j].firstSet = 0 } }

\* C8: the bytes of the scene buffer that draw_objects has written for
\* frame k are those of the slice of k mod 2, and no frame that is still on
\* the GPU reads a byte of them.
C8_SceneSlicesDisjoint ==
    AfterDrawObjects =>
        /\ lastSceneWrite = [off |-> (_frameNumber % FRAME_OVERLAP) * SceneStride,
                             len |-> SizeofGPUSceneData]
        /\ \A sub \in InFlight :
               \A r \in SceneReads(sub) : ~Overlaps(r, lastSceneWrite)

\* The scene slice of slot 1 is written while the frame before reads its own.
C8_Witness ==
    /\ AfterDrawObjects
    /\ _frameNumber % FRAME_OVERLAP = 1
    /\ \E sub \in InFlight : SceneReads(sub) # {}

\* C9: the offset draw_objects wrote the scene parameters at is the dynamic
\* offset of every bind of descriptor set 0 it recorded for the frame, and
\* both are frameIndex * pad_uniform_buffer_size(sizeof(GPUSceneData)).
C9_WriteOffsetIsDynamicOffset ==
    AfterDrawObjects =>
        /\ GlobalBinds # {}
        /\ \A b \in GlobalBinds :
               /\ b.dynamicOffsets = << lastSceneWrite.off >>
               /\ b.dynamicOffsets[1] = (_frameNumber % FRAME_OVERLAP) * SceneStride
               /\ b.set = <<"globalDescriptor", _frameNumber % FRAME_OVERLAP>>

\* A frame of slot 1 on a device whose alignment pads the structure.
C9_Witness ==
    /\ AfterDrawObjects
    /\ _frameNumber % FRAME_OVERLAP = 1
    /\ SceneStride > SizeofGPUSceneData
    /\ lastSceneWrite.off = SceneStride

\* C10: in every frame the dynamic offset is i * stride with i in {0, 1}, it
\* is at most (N-1) * stride, and the slice written and the slice bound both
\* end inside the buffer of N * stride bytes that init_descriptors created.
C10_OffsetInsideBuffer ==
    /\ pc \notin {"init_vulkan", "init_swapchain", "init_default_renderpass",
                  "init_framebuffers", "init_commands", "init_sync_structures",
                  "init_descriptors", "dq"} =>
           sceneBufferSize = FRAME_OVERLAP * SceneStride
    /\ AfterDrawObjects =>
           /\ lastSceneWrite.off + lastSceneWrite.len <= sceneBufferSize
           /\ \A b \in GlobalBinds :
                  /\ b.dynamicOffsets[1] \in { i * SceneStride : i \in 0 .. 1 }
                  /\ b.dynamicOffsets[1] <= (FRAME_OVERLAP - 1) * SceneStride
                  /\ b.dynamicOffsets[1] + descriptors[b.set[2]].scene.range
                         <= sceneBufferSize

\* The last slice ends exactly at the end of the buffer.
C10_Witness ==
    /\ AfterDrawObjects
    /\ _frameNumber >= FRAME_OVERLAP
    /\ lastSceneWrite.off = (FRAME_OVERLAP - 1) * SceneStride
    /\ lastSceneWrite.off + lastSceneWrite.len = sceneBufferSize

(***************************************************************************)
(* Properties of pad_uniform_buffer_size.                                  *)
(***************************************************************************)
\* C11: padding is idempotent: applied to a size it returned, with the same
\* alignment (0 or a power of two), pad_uniform_buffer_size returns that size
\* unchanged.
C11_PadIdempotent ==
    Len(callLog) = 2 =>
        /\ callLog[2].originalSize = callLog[1].alignedSize
        /\ callLog[2].alignedSize = callLog[1].alignedSize

\* A size that the first application changed has been padded a second time.
C11_Witness ==
    /\ Len(callLog) = 2
    /\ minUboAlignment > 1
    /\ callLog[1].alignedSize # callLog[1].originalSize

\* The smallest multiple of a that is >= size, when r is it.
IsRoundUp(r, size, a) ==
    /\ r % a = 0
    /\ r >= size
    /\ r < size + a

\* C12 as stated: for every size and every power-of-two alignment a > 0 the
\* result is the smallest multiple of a that is >= size, and for alignment 0
\* it is the size.
C12_RoundsUpEverySize ==
    \A i \in 1 .. Len(callLog) :
        IF minUboAlignment > 0
        THEN IsRoundUp(callLog[i].alignedSize, callLog[i].originalSize,
                       minUboAlignment)
        ELSE callLog[i].alignedSize = callLog[i].originalSize

\* size + a - 1 does not wrap around in a size_t.
Representable(size, a) == size + a - 1 < Pow2(SizeBits)

\* C12 amended: for every power-of-two alignment a > 0 and every size for
\* which size + a - 1 is representable in size_t, the result is the smallest
\* multiple of a that is >= size (for a = 256: 104 -> 256, 256 -> 256,
\* 257 -> 512); for alignment 0 it is the size.
C12_RoundsUp ==
    /\ \A i \in 1 .. Len(callLog) :
          IF minUboAlignment > 0
          THEN Representable(callLog[i].originalSize, minUboAlignment) =>
                   IsRoundUp(callLog[i].alignedSize, callLog[i].originalSize,
                             minUboAlignment)
          ELSE callLog[i].alignedSize = callLog[i].originalSize
    /\ (callLog # <<>> /\ minUboAlignment = 256) =>
          /\ callLog[1].originalSize = 104 => callLog[1].alignedSize = 256
          /\ callLog[1].originalSize = 256 => callLog[1].alignedSize = 256
          /\ callLog[1].originalSize = 257 => callLog[1].alignedSize = 512

\* 257 has been padded to the alignment 256.
C12_Witness ==
    /\ minUboAlignment = 256
    /\ callLog # <<>>
    /\ callLog[1].originalSize = 257
    /\ callLog[1].alignedSize = 512

(***************************************************************************)
(* Properties of the frame-slot selection.                                 *)
(***************************************************************************)
\* The slot of frame k.
SlotOf(k) == k % FRAME_OVERLAP

\* Everything a submission of frame k names belongs to slot k mod 2.
SubmissionInSlot(sub) ==
    LET s == SlotOf(sub.frame)
    IN  /\ sub.cmdBuffer = s
        /\ sub.fence = s
        /\ sub.waitSemaphore = <<s, "present">>
        /\ sub.signalSemaphore = <<s, "render">>
        /\ \A r \in sub.reads :
               IF r.buffer = <<"sceneParameterBuffer", 0>>
               THEN r.off = s * SceneStride
               ELSE r.buffer \in {<<"cameraBuffer", s>>, <<"objectBuffer", s>>}

\* C13: the current slot is _frameNumber mod 2, an index in {0, 1}; whatever
\* a frame k wrote, recorded, signalled, submitted or asked to present
\* (buffers, command buffer, fence, semaphores, descriptor sets, scene
\* offset) belongs to slot k mod 2, so frames k and k + 2 use the same slot
\* and consecutive frames use different slots.
C13_SlotSelection ==
    /\ get_current_frame \in Slots
    /\ get_current_frame = SlotOf(_frameNumber)
    /\ \A s \in Slots :
         /\ cameraMem[s] # NoFrame => SlotOf(cameraMem[s]) = s
         /\ objectMem[s].stamp # NoFrame => SlotOf(objectMem[s].stamp) = s
         /\ fences[s].by # NoFrame => SlotOf(fences[s].by) = s
         /\ \A kind \in {"present", "render"} :
                semaphores[<<s, kind>>].by # NoFrame =>
                    SlotOf(semaphores[<<s, kind>>].by) = s
    /\ \A r \in sceneMem : r.off = SlotOf(r.stamp) * SceneStride
    /\ \A sub \in InFlight : SubmissionInSlot(sub)
    /\ \A a, b \in InFlight :
         /\ b.frame = a.frame + 1 => b.cmdBuffer # a.cmdBuffer
         /\ b.frame = a.frame + FRAME_OVERLAP => b.cmdBuffer = a.cmdBuffer
    /\ \A i \in 1 .. Len(presentQueue) :
         presentQueue[i].waitSemaphore = <<SlotOf(presentQueue[i].frame), "render">>
    /\ pc \in {"draw_objects", "draw_end"} =>
         cmdBuffers[SlotOf(_frameNumber)].state = "recording"
    /\ pc \in {"draw_resetCmd", "draw_acquire", "draw_begin", "draw_objects",
               "draw_end", "draw_submit"} =>
         ~fences[SlotOf(_frameNumber)].signaled

\* Both slots have been used a second time, and two consecutive frames are
\* on the GPU.
C13_Witness ==
    /\ cameraMem[0] = 2
    /\ cameraMem[1] = 3
    /\ \E a, b \in InFlight : b.frame = a.frame + 1

(***************************************************************************)
(* Properties of draw_objects.                                             *)
(***************************************************************************)
\* The commands draw_objects has recorded for the current frame.
Recorded == cmdBuffers[get_current_frame].cmds

\* The positions of the draw calls in the recorded commands.
DrawPositions == { j \in 1 .. Len(Recorded) : Recorded[j].op = "vkCmdDraw" }

\* The position of the i-th draw call (i from 1), or 0 for i = 0.
DrawPosition(i) ==
    IF i = 0 THEN 0
    ELSE CHOOSE j \in DrawPositions :
             Cardinality({ k \in DrawPositions : k <= j }) = i

\* The commands recorded for object i (from 1): those after the draw call of
\* object i-1, up to and including its own draw call.
CommandsOf(i) ==
    { j \in 1 .. Len(Recorded) : DrawPosition(i - 1) < j /\ j <= DrawPosition(i) }

BindsIn(positions, op) == { j \in positions : Recorded[j].op = op }

\* The latest of the positions `candidates` before position j.
LatestBefore(j, candidates) ==
    CHOOSE k \in candidates : k < j /\ \A l \in candidates : l < j => l <= k

\* C14: after draw_objects a pipeline bind is recorded for object i exactly
\* if i is the first object or its material differs from that of object
\* i-1, and a vertex-buffer bind exactly if i is the first or its mesh
\* differs: one bind per maximal contiguous run, never more than one per object.
C14_OneBindPerRun ==
    pc = "draw_end" =>
        /\ Cardinality(DrawPositions) = Len(_renderables)
        /\ \A i \in 1 .. Len(_renderables) :
             /\ Cardinality(BindsIn(CommandsOf(i), "vkCmdBindPipeline")) =
                  IF i = 1 \/ _renderables[i].material # _renderables[i - 1].material
                  THEN 1 ELSE 0
             /\ Cardinality(BindsIn(CommandsOf(i), "vkCmdBindVertexBuffers")) =
                  IF i = 1 \/ _renderables[i].mesh # _renderables[i - 1].mesh
                  THEN 1 ELSE 0

\* The list is sorted by material, then mesh.
SortedByMaterialThenMesh ==
    \A i \in 2 .. Len(_renderables) :
        LET a == _renderables[i - 1]
            b == _renderables[i]
        IN  \/ a.material = "defaultmesh" /\ b.material = "redmesh"
            \/ a.material = b.material /\ (a.mesh = b.mesh \/ a.mesh = "monkey")

\* draw_objects has run on a sorted list of three objects with two material
\* runs and a mesh run that continues across the change of material.
C14_Witness ==
    /\ pc = "draw_end"
    /\ Len(_renderables) = 3
    /\ SortedByMaterialThenMesh
    /\ _renderables[1].material = _renderables[2].material
    /\ _renderables[2].material # _renderables[3].material
    /\ _renderables[1].mesh # _renderables[2].mesh
    /\ _renderables[2].mesh = _renderables[3].mesh
    /\ Cardinality(BindsIn(1 .. Len(Recorded), "vkCmdBindPipeline")) = 2
    /\ Cardinality(BindsIn(1 .. Len(Recorded), "vkCmdBindVertexBuffers")) = 2

\* The binds of descriptor set `firstSet` among the recorded commands.
SetBinds(firstSet) ==
    { j \in BindsIn(1 .. Len(Recorded), "vkCmdBindDescriptorSets") :
        Recorded[j].firstSet = firstSet }

\* The state the command buffer is in at position j matches the object:
\* the latest binds before j are those of its material and its mesh.
BoundFor(j, object) ==
    LET pipelines == BindsIn(1 .. Len(Recorded), "vkCmdBindPipeline")
        buffers == BindsIn(1 .. Len(Recorded), "vkCmdBindVertexBuffers")
        material == _materials[object.material]
    IN  /\ \E k \in pipelines : k < j
        /\ Recorded[LatestBefore(j, pipelines)].pipeline = material.pipeline
        /\ \E k \in SetBinds(0) : k < j
        /\ Recorded[LatestBefore(j, SetBinds(0))].layout = material.pipelineLayout
        /\ Recorded[LatestBefore(j, SetBinds(0))].set =
             <<"globalDescriptor", get_current_frame>>
        /\ \E k \in SetBinds(1) : k < j
        /\ Recorded[LatestBefore(j, SetBinds(1))].layout = material.pipelineLayout
        /\ Recorded[LatestBefore(j, SetBinds(1))].set =
             <<"objectDescriptor", get_current_frame>>
        /\ \E k \in buffers : k < j
        /\ Recorded[LatestBefore(j, buffers)].buffer =
             _meshes[object.mesh].vertexBuffer

\* C15: after draw_objects on a list of count objects there are exactly
\* count draw calls, the i-th with the vertex count of the mesh of object i
\* and one instance, each preceded by a pipeline bind, the binds of both
\* descriptor sets and a vertex-buffer bind that are those of object i; for
\* one object with a 3-vertex mesh that is 1 pipeline bind, 1 vertex-buffer
\* bind and 1 draw call of 3 vertices.
C15_OneDrawPerObject ==
    pc = "draw_end" =>
        /\ Cardinality(DrawPositions) = Len(_renderables)
        /\ \A i \in 1 .. Len(_renderables) :
             LET draw == Recorded[DrawPosition(i)]
             IN  /\ draw.vertexCount = _meshes[_renderables[i].mesh].vertices
                 /\ draw.instanceCount = 1
                 /\ draw.firstVertex = 0
                 /\ BoundFor(DrawPosition(i), _renderables[i])
        /\ (Len(_renderables) = 1 /\ _renderables[1].mesh = "triangle") =>
             /\ Cardinality(BindsIn(1 .. Len(Recorded), "vkCmdBindPipeline")) = 1
             /\ Cardinality(BindsIn(1 .. Len(Recorded), "vkCmdBindVertexBuffers")) = 1
             /\ Cardinality(DrawPositions) = 1
             /\ Recorded[DrawPosition(1)].vertexCount = 3

\* draw_objects has run on the one-triangle scene, and on a scene whose
\* third object needs the mesh of the first bound again.
C15_Witness ==
    /\ pc = "draw_end"
    /\ \/ /\ Len(_renderables) = 1
          /\ _renderables[1].mesh = "triangle"
          /\ _renderables[1].material = "defaultmesh"
          /\ _frameNumber = 0
       \/ /\ Len(_renderables) = 3
          /\ _renderables[1].mesh = _renderables[3].mesh
          /\ _renderables[1].mesh # _renderables[2].mesh
          /\ _frameNumber = 1

\* C16: after draw_objects of every frame entry i of the current slot's
\* object buffer holds the transform of object i and the draw call of
\* object i passes i as its first instance; one entry is written per render
\* object, and the render objects (those of the model's grid, and the
\* SceneObjects of the source's grid) fit the buffer's capacity of
\* MAX_OBJECTS entries.
C16_ObjectIndexIsDrawIndex ==
    pc = "draw_end" =>
        LET written == objectMem[get_current_frame]
        IN  /\ written.stamp = _frameNumber
            /\ Len(written.data) = Len(_renderables)
            /\ Len(written.data) <= MAX_OBJECTS
            /\ Len(written.data) = 1 + GridWidth * GridWidth => SceneObjects <= MAX_OBJECTS
            /\ Len(written.data) * SizeofGPUObjectData <=
                 descriptors[get_current_frame].object.range
            /\ Cardinality(DrawPositions) = Len(_renderables)
            /\ \A i \in 1 .. Len(_renderables) :
                 /\ written.data[i] = _renderables[i].transformMatrix
                 /\ Recorded[DrawPosition(i)].firstInstance = i - 1
                 /\ written.data[Recorded[DrawPosition(i)].firstInstance + 1] =
                      _renderables[i].transformMatrix

\* draw_objects has written the transforms of objects that differ in their
\* transforms.
C16_Witness ==
    /\ pc = "draw_end"
    /\ _frameNumber >= FRAME_OVERLAP
    /\ Len(_renderables) >= 2
    /\ _renderables[1].transformMatrix # _renderables[2].transformMatrix
    /\ Len(objectMem[get_current_frame].data) = Len(_renderables)

(***************************************************************************)
(* Properties of the registries.                                           *)
(***************************************************************************)
\* The registry a lookup reads, as it is after the call.
RegistryOf(call) == IF call.fn = "get_mesh" THEN _meshes ELSE _materials

\* C17: get_material and get_mesh with a name that is no key of their
\* registry return the null pointer, raise nothing and leave the registry as
\* it was, with no entry added; with a name that is a key they return a
\* pointer to the entry stored under that name, which is unchanged.
C17_LookupMissingIsNull ==
    \A i \in 1 .. Len(callLog) :
        LET call == callLog[i]
        IN  call.fn \in {"get_material", "get_mesh"} =>
                /\ pc = "registry"
                /\ RegistryOf(call) = call.before
                /\ IF call.name \in DOMAIN call.before
                   THEN /\ call.ret = call.name
                        /\ RegistryOf(call)[call.ret] = call.before[call.name]
                   ELSE call.ret = NULL

\* get_material has been called with a name that is no key, on registries
\* that hold entries.
C17_Witness ==
    /\ callLog # <<>>
    /\ callLog[1].fn = "get_material"
    /\ callLog[1].name = "missing"
    /\ callLog[1].ret = NULL
    /\ DOMAIN _materials = RegisteredNames
    /\ DOMAIN _meshes = MeshNames

\* C18: after create_material(pipeline, layout, name) the entry found under
\* name holds exactly that pipeline and layout, whether name was a key
\* before or not; the pointer returned is the one get_material(name)
\* returns; every entry under another name is as it was.
C18_CreateInsertsOrOverwrites ==
    \A i \in 1 .. Len(callLog) :
        LET call == callLog[i]
        IN  call.fn = "create_material" =>
                /\ get_material(call.name) # NULL
                /\ _materials[get_material(call.name)] =
                     [pipeline |-> call.pipeline, pipelineLayout |-> call.layout]
                /\ call.ret = get_material(call.name)
                /\ DOMAIN _materials = (DOMAIN call.before) \cup {call.name}
                /\ \A n \in (DOMAIN call.before) \ {call.name} :
                       _materials[n] = call.before[n]

\* An entry has been overwritten with another pipeline while another entry
\* was in the registry.
C18_Witness ==
    /\ callLog # <<>>
    /\ callLog[1].fn = "create_material"
    /\ callLog[1].name \in DOMAIN callLog[1].before
    /\ callLog[1].before[callLog[1].name].pipeline # callLog[1].pipeline
    /\ DOMAIN callLog[1].before = RegisteredNames

(***************************************************************************)
(* Properties of run().                                                    *)
(***************************************************************************)
\* C19: _selectedShader is always 0 or 1; a step that polls the "cycle
\* active shader" key advances it by one modulo 2, and no other step (another
\* event, a frame, the device) changes it.
C19_ShaderSelector ==
    /\ [](_selectedShader \in {0, 1})
    /\ [][IF run_PollEventOf("SDLK_SPACE")
          THEN _selectedShader' = (_selectedShader + 1) % 2
          ELSE _selectedShader' = _selectedShader]_vars

\* The second shader is selected, frames having been drawn before and after
\* the key.
C19_Witness ==
    /\ _selectedShader = 1
    /\ drawCalls >= 2
    /\ pc = "draw_submit"

\* run() has returned.
Returned == pc \in {"run_returned", "cleanup_flush", "cleanup_destroy", "done"}

\* A draw() call did not return: the process aborted or crashed in it.
DrawDidNotReturn == pc \in {"aborted", "crashed"}

\* C20: run() returns only after a quit has been polled, and once a quit has
\* been polled run() returns, unless a draw() call does not return.
C20_RunsUntilQuit ==
    /\ [](Returned => bQuit)
    /\ [](bQuit => <>(Returned \/ DrawDidNotReturn))

\* run() has returned after frames were drawn.
C20_Witness ==
    /\ pc = "run_returned"
    /\ bQuit
    /\ _frameNumber >= FRAME_OVERLAP

(***************************************************************************)
(* The meshes.                                                             *)
(***************************************************************************)
\* C21: meshes are write-once: once init() is through, upload_meshes has
\* created exactly one vertex buffer per named mesh, and the vertex buffer
\* of an entry of the mesh registry never changes once it is there.
C21_MeshesWriteOnce ==
    /\ [](_isInitialized => uploads = Cardinality(DOMAIN _meshes))
    /\ [][\A n \in DOMAIN _meshes :
            _meshes'[n].vertexBuffer = _meshes[n].vertexBuffer]_vars

(***************************************************************************)
(* Creation and destruction order.                                         *)
(***************************************************************************)
\* The resources of the frame slots (FrameData's members that are destroyed).
FrameResourceKinds ==
    {"commandPool", "renderFence", "presentSemaphore", "renderSemaphore",
     "cameraBuffer", "objectBuffer"}

IsFrameResource(handle) == handle[1] \in FrameResourceKinds

\* The handles destroyed so far, in the order of the destroy calls.
Destroyed == [ i \in 1 .. Len(executed) |-> executed[i].handle ]

CreatedFrameResources == SelectSeq(created, IsFrameResource)
DestroyedFrameResources == SelectSeq(Destroyed, IsFrameResource)

PositionIn(s, x) == CHOOSE i \in 1 .. Len(s) : s[i] = x

\* The closure, counted in the order the closures ran, that destroys a handle.
ClosureOf(handle) ==
    CHOOSE i \in 1 .. Len(expected) :
        \E j \in 1 .. Len(expected[i]) : expected[i][j].handle = handle

\* C22 as stated: at shutdown the resources of the frame slots are destroyed
\* in exactly the reverse of the order in which they were created.
C22_ReverseCreationOrder ==
    pc = "done" => DestroyedFrameResources = Reverse(CreatedFrameResources)

\* C22: at shutdown every resource of the frame slots is destroyed once, the
\* teardown closures running in the reverse of the order they were pushed in:
\* of two resources destroyed by different closures the one created later is
\* destroyed first, of two resources destroyed by the same closure the one
\* created first is destroyed first.
C22_ReverseByClosure ==
    pc = "done" =>
      /\ Len(DestroyedFrameResources) = Len(CreatedFrameResources)
      /\ \A x \in { created[i] : i \in 1 .. Len(created) } :
           IsFrameResource(x) =>
             \E i \in 1 .. Len(Destroyed) : Destroyed[i] = x
      /\ \A i, j \in 1 .. Len(CreatedFrameResources) :
           LET x == CreatedFrameResources[i]
               y == CreatedFrameResources[j]
           IN  i < j =>
                 IF ClosureOf(x) = ClosureOf(y)
                 THEN PositionIn(Destroyed, x) < PositionIn(Destroyed, y)
                 ELSE PositionIn(Destroyed, y) < PositionIn(Destroyed, x)

\* cleanup() is through: the command pools, fences, semaphores and buffers of
\* both slots were created and have been destroyed, the camera buffer of
\* slot 0 before its object buffer, the fence of slot 1 before that of slot 0.
C22_Witness ==
    /\ pc = "done"
    /\ Len(CreatedFrameResources) = 6 * FRAME_OVERLAP
    /\ Len(DestroyedFrameResources) = 6 * FRAME_OVERLAP
    /\ PositionIn(Destroyed, <<"cameraBuffer", 0>>)
         < PositionIn(Destroyed, <<"objectBuffer", 0>>)
    /\ PositionIn(Destroyed, <<"renderFence", 1>>)
         < PositionIn(Destroyed, <<"renderFence", 0>>)

(***************************************************************************)
(* What a draw() call leaves alone.                                        *)
(***************************************************************************)
\* A step of the CPU inside draw(): one of its statements is executed.
DrawStep == InDraw /\ pc' # pc

\* The fence, semaphores, command buffer, camera buffer and object buffer of
\* slot s are what they were.
SlotUntouched(s) ==
    /\ fences'[s] = fences[s]
    /\ \A n \in {"present", "render"} : semaphores'[<<s, n>>] = semaphores[<<s, n>>]
    /\ cmdBuffers'[s] = cmdBuffers[s]
    /\ cameraMem'[s] = cameraMem[s]
    /\ objectMem'[s] = objectMem[s]

\* C23: the descriptor sets are allocated and written by init_descriptors
\* and by nothing else; a statement of draw() leaves the descriptor sets and
\* their buffer bindings, the material and mesh registries and the list of
\* render objects unchanged, and changes no synchronisation object and no
\* buffer of the slot that is not the current one.
C23_DrawLeavesSetupAlone ==
    /\ [][descriptors' # descriptors => pc = "init_descriptors"]_vars
    /\ [][DrawStep =>
            /\ descriptors' = descriptors
            /\ _materials' = _materials
            /\ _meshes' = _meshes
            /\ _renderables' = _renderables
            /\ \A s \in Slots : s # SlotOf(_frameNumber) => SlotUntouched(s)]_vars

\* Frame 1 has been submitted on slot 1 while the submission of frame 0 is
\* still on the GPU with slot 0's fence unsignalled, and the descriptor sets
\* of both slots are those init_descriptors wrote.
C23_Witness ==
    /\ pc = "draw_present"
    /\ _frameNumber = 1
    /\ \E i \in 1 .. Len(gpuQueue) : gpuQueue[i].frame = 0
    /\ ~fences[0].signaled
    /\ DOMAIN descriptors = Slots
    /\ descriptors[0].camera.buffer = <<"cameraBuffer", 0>>
    /\ descriptors[1].object.buffer = <<"objectBuffer", 1>>

(***************************************************************************)
(* Properties of load_shader_module.                                       *)
(***************************************************************************)
\* C24: load_shader_module reports failure as a value instead of aborting:
\* every call returns; when the file cannot be opened or the creation of the
\* shader module fails it returns false and *outShaderModule is what it was
\* before the call; it returns true only when a module was created, and then
\* *outShaderModule is that module.
C24_FailureIsAValue ==
    \A i \in 1 .. Len(callLog) :
        LET c == callLog[i]
            failed == ~c.file.is_open \/ c.created.result # VK_SUCCESS
        IN  c.fn = "load_shader_module" =>
              /\ c.call.end = "returned"
              /\ failed => (c.call.ret = FALSE /\ c.call.out = c.before)
              /\ c.call.ret = TRUE =>
                   /\ c.created.result = VK_SUCCESS
                   /\ c.call.out = c.created.shaderModule

(***************************************************************************)
(* Properties of the start-up.                                             *)
(***************************************************************************)
\* C25: however the start-up went, every render object of the list that
\* draw_objects iterates has a mesh and a material that were found in the
\* registries (neither is the null pointer of a failed lookup), and
\* draw_objects dereferences no null pointer.
C25_NoNullDereference ==
    /\ pc # "crashed"
    /\ \A i \in 1 .. Len(_renderables) :
         /\ _renderables[i].mesh # NULL
         /\ _renderables[i].mesh \in DOMAIN _meshes
         /\ _renderables[i].material # NULL
         /\ _renderables[i].material \in DOMAIN _materials

\* draw_objects has gone through the render objects after a start-up in
\* which build_pipeline returned no pipeline and the monkey was not found.
C25_Witness ==
    /\ pc = "draw_end"
    /\ Len(_renderables) = 1 + GridWidth * GridWidth
    /\ _materials["defaultmesh"].pipeline = VK_NULL_HANDLE
    /\ _meshes["monkey"].vertices = 0
    /\ Len(cmdBuffers[get_current_frame].cmds) > 2

\* What the objects init() creates are created from: a pair << x, y >> says
\* that x was created from y (a framebuffer from its attachments and the
\* render pass, a view from its image, a pipeline from its layout, a buffer
\* or image from the allocator) and every object from the device.
Dependencies ==
    { << <<"framebuffer", k>>, <<"swapchainImageView", k>> >> : k \in 0 .. NumImages - 1 }
    \cup { << <<"framebuffer", k>>, <<"depthImageView", 0>> >> : k \in 0 .. NumImages - 1 }
    \cup { << <<"framebuffer", k>>, <<"renderPass", 0>> >> : k \in 0 .. NumImages - 1 }
    \cup { << <<"swapchainImageView", k>>, <<"swapchain", 0>> >> : k \in 0 .. NumImages - 1 }
    \cup { << <<"depthImageView", 0>>, <<"depthImage", 0>> >>,
           << <<"pipeline", 0>>, <<"pipelineLayout", 0>> >> }
    \cup { << x, <<"allocator", 0>> >> :
             x \in { created[i] : i \in 1 .. Len(created) } \cap
                   ( {"depthImage", "sceneParameterBuffer", "cameraBuffer",
                      "objectBuffer", "vertexBuffer"} \X (0 .. uploads + 1) ) }
    \cup { << x, d >> :
             x \in { created[i] : i \in 1 .. Len(created) }
                   \ { <<"instance", 0>>, <<"debug_messenger", 0>>,
                       <<"surface", 0>>, <<"device", 0>> },
             d \in { <<"device", 0>>, <<"instance", 0>> } }

\* C26: cleanup() destroys every dependent object before the object it
\* depends on: when an object is destroyed, everything that was created from
\* it (each framebuffer before its image views and the render pass, the depth
\* image view before the depth image, the swapchain image views before the
\* swapchain, the pipeline before its layout, every buffer and image before
\* the allocator, everything before the device and the instance) has been
\* destroyed already.
C26_DependentsDestroyedFirst ==
    \A j \in 1 .. Len(Destroyed) :
        \A dep \in Dependencies :
            dep[2] = Destroyed[j] => \E i \in 1 .. (j - 1) : Destroyed[i] = dep[1]

(***************************************************************************)
(* Properties of the fences.                                               *)
(***************************************************************************)
\* The frames submitted so far with the fence of slot s.
SubmittedWithFence(s) ==
    { f \in completed : SlotOf(f) = s }
    \cup { gpuQueue[i].frame : i \in { j \in 1 .. Len(gpuQueue) : gpuQueue[j].fence = s } }

Latest(frames) == CHOOSE f \in frames : \A g \in frames : g <= f

\* C27: the fences are created signalled, so the waits of frames 0 and 1
\* find their slot's fence signalled although nothing was submitted with it;
\* a fence stays as created only until its first use, and after that it is
\* signalled only by the completion of the latest submission made with it.
C27_FenceSignalledByLatestSubmission ==
    /\ (pc = "draw_wait" /\ _frameNumber < FRAME_OVERLAP) =>
         /\ fences[get_current_frame].signaled
         /\ fences[get_current_frame].by = NoFrame
         /\ SubmittedWithFence(get_current_frame) = {}
    /\ \A s \in Slots :
         fences[s].signaled =>
           IF fences[s].by = NoFrame
           THEN SubmittedWithFence(s) = {} /\ _frameNumber <= s
           ELSE /\ SubmittedWithFence(s) # {}
                /\ fences[s].by = Latest(SubmittedWithFence(s))
                /\ fences[s].by \in completed

\* Frame 3 has passed its wait on slot 1's fence, which the completion of
\* frame 1 signalled, and slot 0's fence was signalled by the completion of
\* frame 2.
C27_Witness ==
    /\ pc = "draw_resetFence"
    /\ _frameNumber = 3
    /\ fences[1] = [signaled |-> TRUE, by |-> 1]
    /\ fences[0] = [signaled |-> TRUE, by |-> 2]

\* The submissions that have not completed and were made with the fence of
\* slot s.
PendingWithFence(s) == { sub \in InFlight : sub.fence = s }

\* C28: when draw() is about to call vkQueueSubmit the fence it passes is
\* unsignalled and no unfinished submission was made with it; so no fence
\* ever has more than one pending submission.
C28_OnePendingSubmissionPerFence ==
    /\ pc = "draw_submit" =>
         /\ ~fences[SubmitFence].signaled
         /\ PendingWithFence(SubmitFence) = {}
    /\ \A s \in Slots :
         /\ Cardinality(PendingWithFence(s)) <= 1
         /\ PendingWithFence(s) # {} => ~fences[s].signaled

\* draw() of frame 2 is about to submit with slot 0's fence: frame 0, which
\* used that fence, has completed, and frame 1 is still pending with the
\* fence of slot 1.
C28_Witness ==
    /\ pc = "draw_submit"
    /\ _frameNumber = 2
    /\ 0 \in completed
    /\ ~fences[0].signaled
    /\ Cardinality(PendingWithFence(1)) = 1

(***************************************************************************)
(* Properties of the render-done semaphores.                               *)
(***************************************************************************)
\* The presentation requests that have not been served and wait on semaphore s.
PendingPresents(s) ==
    { presentQueue[i] : i \in { j \in 1 .. Len(presentQueue) :
                                  presentQueue[j].waitSemaphore = s } }

\* C29: when draw() gives a slot's render-done semaphore to a submission to
\* signal, no presentation that waits on that semaphore is still pending (the
\* presentation of frame k - 2 has consumed its signal), and every
\* presentation consumes the signal of the submission of its own frame.
C29_RenderSemaphoreFreeAtSubmit ==
    /\ pc = "draw_submit" => PendingPresents(SubmitSignalSemaphore) = {}
    /\ \A p \in presented : p.by = p.frame

(***************************************************************************)
(* Progress of the frame loop.                                             *)
(***************************************************************************)
\* draw() is in vkWaitForFences or in vkAcquireNextImageKHR and what the call
\* waits for has not happened yet.
Blocked ==
    \/ pc = "draw_wait" /\ ~fences[get_current_frame].signaled
    \/ pc = "draw_acquire" /\ freeImages = <<>>

\* No call of the loop has failed or timed out.
NoCallFailed == pc # "aborted"

\* C30: the frame loop cannot deadlock.  Whenever draw() waits for a fence or
\* for an image, the device or the presentation engine still has a step to
\* take; and when no call fails or times out and no quit event arrives, every
\* draw() that has begun returns to the test of the loop with the frame
\* counter one higher, the counter changing nowhere else.
C30_NoDeadlock ==
    /\ [](Blocked => ENABLED GpuStep)
    /\ [][_frameNumber' # _frameNumber
            => pc = "draw_inc" /\ _frameNumber' = _frameNumber + 1]_vars
    /\ ([]NoCallFailed) =>
         \A k \in 0 .. MaxLoopFrames - 1 :
             (pc = "draw_wait" /\ _frameNumber = k)
                 ~> (pc = "loop_test" /\ _frameNumber = k + 1)

\* The last frame of the loop has returned without a failed call: its slot's
\* fence and every image have been used before.
C30_Witness ==
    /\ pc = "loop_test"
    /\ _frameNumber = MaxLoopFrames
    /\ NoCallFailed

(***************************************************************************)
(* Properties of cleanup().                                                *)
(***************************************************************************)
\* The number of destroy calls made so far on handle h.
TimesDestroyed(h) ==
    Cardinality({ j \in 1 .. Len(executed) : executed[j].handle = h })

\* C31: once cleanup() has returned, every object init() has created has
\* been destroyed exactly once, through the handle it was created with: no
\* handle was created twice, none is left live, none was destroyed twice,
\* and no destroy call was made on anything but a created handle (the
\* window apart, which is not a GPU object).
C31_DestroyedExactlyOnce ==
    pc = "done" =>
        /\ \A i, j \in 1 .. Len(created) : created[i] = created[j] => i = j
        /\ \A i \in 1 .. Len(created) : TimesDestroyed(created[i]) = 1
        /\ \A j \in 1 .. Len(executed) :
               \/ executed[j].handle = <<"window", 0>>
               \/ \E i \in 1 .. Len(created) : created[i] = executed[j].handle

(***************************************************************************)
(* flush() empties the DeletionQueue.                                      *)
(***************************************************************************)
\* The number of closures of the sequence of closures d that make call c.
TimesIn(d, c) == Cardinality({ i \in 1 .. Len(d) : d[i] = << c >> })

\* The number of times call c has been executed.
TimesExecuted(c) == Cardinality({ i \in 1 .. Len(executed) : executed[i] = c })

\* Every action that a push of the harness can queue.
DQActions == { Destroy("action", "action", a) : a \in 1 .. NumActions }

\* C32: a flush leaves the queue empty and executes as many actions as the
\* queue held, none when it held none (a second flush with no push in
\* between); and at any time every action has been executed as often as it
\* was pushed before the last flush, the pushes made since being in the queue.
C32_FlushLeavesQueueEmpty ==
    /\ [][Len(deletors') <= Len(deletors)
            => /\ deletors' = <<>>
               /\ Len(executed') = Len(executed) + Len(deletors)]_vars
    /\ [](\A c \in DQActions :
              /\ TimesExecuted(c) = TimesIn(expected, c)
              /\ TimesIn(deletors, c) = TimesIn(pushed, c))

\* Two flushes have run: an action was pushed and executed, then pushed again
\* and executed again, and the queue is empty.
C32_Witness ==
    /\ pc = "dq"
    /\ deletors = <<>>
    /\ Len(executed) >= 3
    /\ executed[1] = executed[2]
    /\ executed[2] # executed[3]

(***************************************************************************)
(* One draw() per iteration of run()'s loop.                               *)
(***************************************************************************)
\* C33: every iteration of the loop of run() empties the event queue and
\* then calls draw() once.  While an iteration polls, one draw() fewer than
\* iterations has been called; from the call on, as many; draw() is called
\* only when the poll has found no event; when the loop is at its test or
\* has been left, as many frames have been drawn as iterations were begun;
\* and no iteration begins once quit has been polled, so that the draw() of
\* that iteration is the only one after the quit.
C33_OneDrawPerIteration ==
    /\ [](pc \in {"poll", "draw_wait"} => drawCalls = iterations - 1)
    /\ [](pc \notin {"poll", "draw_wait"} => drawCalls = iterations)
    /\ [](pc \in {"loop_test", "run_returned"} => _frameNumber = iterations)
    /\ [](pc = "run_returned" => bQuit)
    /\ [][pc # "draw_wait" /\ pc' = "draw_wait" => pc = "poll"]_vars
    /\ [][bQuit => iterations' = iterations]_vars

\* The quit event was polled in the second iteration and that iteration's
\* draw() has returned: two iterations, two frames.
C33_Witness ==
    /\ pc = "loop_test"
    /\ bQuit
    /\ iterations = 2
    /\ drawCalls = 2
    /\ _frameNumber = 2

====
